---- MODULE Spec2Model ----
(***************************************************************************)
(* A model of kubectl-create-resource: the path-addressed document engine  *)
(* (ParseSetValues, parsePath, parsePathPart, setNestedValue,               *)
(* BuildNestedMap, flattenMap), the schema extraction (GetSchema,           *)
(* extractFields), the field collection (CollectFieldValuesWithTemplate     *)
(* and its prompts), GenerateManifest and the command (runCreateResource,   *)
(* createResource, createFromTemplate).                                     *)
(*                                                                         *)
(* Go strings are sequences of one-character strings, so that the code's    *)
(* byte loops, splits and trims are modelled by what they do.               *)
(* Go interface{} values are tagged records:                                *)
(*   [t |-> "nil"], [t |-> "bool", b], [t |-> "int", i], [t |-> "float", f],*)
(*   [t |-> "str", s], [t |-> "list", l] ([]interface{}),                   *)
(*   [t |-> "map", m] (map[string]interface{}, a function on its keys).     *)
(***************************************************************************)
EXTENDS Integers, Sequences, FiniteSets, TLC

VARIABLES
    \* ---- document engine run (flattenMap, then BuildNestedMap) ----
    rpc,        \* position: "start" (flattenMap is next) or "parse" (ParseSetValues
                \* is next), then "flattened" / "parsed", "merged" (the --set values
                \* are laid over the flattened seed), "assembling", "assembled",
                \* "error", "panic"; "idle" while another part of the program runs
    assignments, \* the --set texts handed to ParseSetValues
    doc,        \* the map handed to flattenMap
    prefix,     \* the prefix handed to flattenMap
    emitted,    \* what flattenMap wrote: records [path, val, loc]
    vm,         \* the ValueMap (map[string]interface{}), a function on its keys
    todo,       \* keys of vm that BuildNestedMap's range loop has not visited yet
    nested,     \* BuildNestedMap's result map under construction
    aliased,    \* keys of vm whose list is the very slice that `nested` holds
    \* ---- one run of the command ----
    pc,         \* position in runCreateResource / createResource / createFromTemplate
    cfg,        \* the flag variables of root.go (set by the command line), and
                \* entry: where the run starts
    gvr,        \* what ResolveResourceType returned
    template,   \* the template: the fetched object, or the seed of field collection
    schema,     \* what GetResourceSchema returned: [isNil, err, Fields]
    values,     \* the CollectedValues under construction: [Name, Values]
    flagValues, \* what ParseSetValues returned
    queue,      \* the fields the walk still has to prompt for, in order
    acc,        \* promptArray: the values read so far and the lines asked
    manifest,   \* the Document generated or edited (empty before)
    log,        \* what the run did so far: prompts, prints, editor, create requests
    \* ---- one call of extractFields ----
    xpc,        \* "start", then "done" or "overflow"; or "find", then "found" ("idle"
                \* while another part runs)
    xdef,       \* the call extractFields(def, pre, allSchemas): [def, pre], or the call
                \* findResourceSchema(schemas, gvk, gvr): [schemas, gvr]
    ximpl,      \* which extractFields of the repository runs
    xout        \* the fields returned, in order; or the name of the definition found

rtVars  == <<rpc, assignments, doc, prefix, emitted, vm, todo, nested, aliased>>
cmdVars == <<pc, cfg, gvr, template, schema, values, flagValues, queue, acc, manifest, log>>
exVars  == <<xpc, xdef, ximpl, xout>>
vars    == <<rtVars, cmdVars, exVars>>

(***************************************************************************)
(* Bounds of the model.                                                    *)
(***************************************************************************)
MaxListLen == 1      \* longest list inside a generated Document

(***************************************************************************)
(* Values.                                                                 *)
(***************************************************************************)
Nil      == [t |-> "nil"]
VBool(b) == [t |-> "bool", b |-> b]
VInt(i)  == [t |-> "int", i |-> i]
VFloat(s) == [t |-> "float", f |-> s]
VStr(s)  == [t |-> "str", s |-> s]
VList(l) == [t |-> "list", l |-> l]
VMap(m)  == [t |-> "map", m |-> m]

EmptyMap == <<>>     \* make(map[string]interface{})

\* m[k] = v of a Go map
Put(m, k, v) == [x \in (DOMAIN m) \cup {k} |-> IF x = k THEN v ELSE m[x]]

\* delete(m, k) of a Go map
Del(m, k) == [x \in (DOMAIN m) \ {k} |-> m[x]]

(***************************************************************************)
(* Strings.                                                                *)
(***************************************************************************)
Digits == <<"0", "1", "2", "3", "4", "5", "6", "7", "8", "9">>
IsDigit(c) == \E i \in 1..10 : Digits[i] = c
DigitVal(c) == (CHOOSE i \in 1..10 : Digits[i] = c) - 1

RECURSIVE DecVal(_)
DecVal(s) == IF s = <<>> THEN 0
             ELSE 10 * DecVal(SubSeq(s, 1, Len(s) - 1)) + DigitVal(s[Len(s)])

\* the decimal digits without their leading zeros
RECURSIVE StripZeros(_)
StripZeros(s) == IF Len(s) > 1 /\ s[1] = "0" THEN StripZeros(Tail(s)) ELSE s

\* the digits denote a magnitude within 64 bits: at most 2^63 - 1, or 2^63 after '-'
FitsInt64(body, negative) ==
    LET d     == StripZeros(body)
        limit == IF negative
                 THEN <<"9", "2", "2", "3", "3", "7", "2", "0", "3", "6", "8", "5", "4", "7", "7", "5", "8", "0", "8">>
                 ELSE <<"9", "2", "2", "3", "3", "7", "2", "0", "3", "6", "8", "5", "4", "7", "7", "5", "8", "0", "7">>
    IN  \/ Len(d) < Len(limit)
        \/ /\ Len(d) = Len(limit)
           /\ \/ d = limit
              \/ \E i \in 1..Len(d) : /\ DigitVal(d[i]) < DigitVal(limit[i])
                                       /\ \A j \in 1..(i - 1) : d[j] = limit[j]

\* strconv.Atoi: an optional sign, then one or more decimal digits, within 64 bits
Atoi(s) ==
    LET signed == Len(s) > 0 /\ s[1] \in {"+", "-"}
        body   == IF signed THEN SubSeq(s, 2, Len(s)) ELSE s
        negative == signed /\ s[1] = "-"
    IN  IF /\ body # <<>>
           /\ \A i \in 1..Len(body) : IsDigit(body[i])
           /\ FitsInt64(body, negative)
        THEN [ok |-> TRUE,
              v  |-> IF negative THEN 0 - DecVal(body) ELSE DecVal(body)]
        ELSE [ok |-> FALSE, v |-> 0]

\* fmt.Sprintf("%d", n) for n >= 0
RECURSIVE Itoa(_)
Itoa(n) == IF n < 10 THEN <<Digits[n + 1]>>
           ELSE Itoa(n \div 10) \o <<Digits[(n % 10) + 1]>>

\* strings.Index(s, c) as a 1-based position, 0 when absent
IndexOf(s, c) == IF \E i \in 1..Len(s) : s[i] = c
                 THEN CHOOSE i \in 1..Len(s) : s[i] = c /\ \A j \in 1..(i - 1) : s[j] # c
                 ELSE 0

Contains(s, c) == \E i \in 1..Len(s) : s[i] = c

HasPrefix(s, p) == Len(s) >= Len(p) /\ SubSeq(s, 1, Len(p)) = p


TrimPrefix(s, p) == IF HasPrefix(s, p) THEN SubSeq(s, Len(p) + 1, Len(s)) ELSE s

TrimSuffix(s, p) ==
    IF Len(s) >= Len(p) /\ SubSeq(s, Len(s) - Len(p) + 1, Len(s)) = p
    THEN SubSeq(s, 1, Len(s) - Len(p)) ELSE s

\* strings.TrimSpace
RECURSIVE TrimSpace(_)
TrimSpace(s) == IF s # <<>> /\ s[1] = " " THEN TrimSpace(Tail(s))
                ELSE IF s # <<>> /\ s[Len(s)] = " " THEN TrimSpace(SubSeq(s, 1, Len(s) - 1))
                ELSE s

(***************************************************************************)
(* PathGrammar: parsePath and parsePathPart.                               *)
(***************************************************************************)
\* the position of the first ']' at or after i, Len(path) + 1 when there is none
CloseAt(path, i) == IF \E j \in i..Len(path) : path[j] = "]"
                    THEN CHOOSE j \in i..Len(path) :
                            path[j] = "]" /\ \A k \in i..(j - 1) : path[k] # "]"
                    ELSE Len(path) + 1

\* the loop of parsePath from byte i on, with the builder `current` and `parts`
RECURSIVE parsePathFrom(_, _, _, _)
parsePathFrom(path, i, current, parts) ==
    IF i > Len(path)
    THEN IF current # <<>> THEN Append(parts, current) ELSE parts
    ELSE IF path[i] = "."
    THEN IF current # <<>>
         THEN parsePathFrom(path, i + 1, <<>>, Append(parts, current))
         ELSE parsePathFrom(path, i + 1, current, parts)
    ELSE IF path[i] = "["
    THEN IF current # <<>>
         THEN LET j == CloseAt(path, i)
                  copied == current \o SubSeq(path, i, j - 1)
              IN  parsePathFrom(path, j + 1,
                                IF j <= Len(path) THEN Append(copied, "]") ELSE copied,
                                parts)
         ELSE parsePathFrom(path, i + 1, current, parts)
    ELSE parsePathFrom(path, i + 1, Append(current, path[i]), parts)

parsePath(path) == parsePathFrom(path, 1, <<>>, <<>>)

parsePathPart(part) ==
    LET bracketIdx == IndexOf(part, "[")
    IN  IF bracketIdx = 0
        THEN [key |-> part, index |-> -1]
        ELSE LET key      == SubSeq(part, 1, bracketIdx - 1)
                 indexStr == TrimSuffix(TrimPrefix(SubSeq(part, bracketIdx, Len(part)),
                                                   <<"[">>), <<"]">>)
                 a        == Atoi(indexStr)
             IN  IF ~a.ok THEN [key |-> part, index |-> -1]
                 ELSE [key |-> key, index |-> a.v]

\* the tokens of a path: each part of parsePath seen through parsePathPart
Tokens(path) == [i \in 1..Len(parsePath(path)) |-> parsePathPart(parsePath(path)[i])]

(***************************************************************************)
(* DocumentAssembler: setNestedValue and BuildNestedMap.                   *)
(***************************************************************************)
Nils(n) == [i \in 1..n |-> Nil]

\* a fresh slice for key[index], whatever the map holds at key
freshArr(current, key, index) == Nils(index + 1)

\* the slice the code works on for key[index]: the list already at key, or a
\* fresh one of index+1 nils, extended with nils while len(arr) <= index
ArrAt(current, key, index) ==
    LET arr == IF key \in DOMAIN current /\ current[key].t = "list"
               THEN current[key].l ELSE Nils(index + 1)
    IN  IF Len(arr) <= index THEN arr \o Nils(index + 1 - Len(arr)) ELSE arr

\* setNestedValue from part i on, `current` being the map the walk stands in;
\* the result is that map after the walk
RECURSIVE setNestedFrom(_, _, _, _)
setNestedFrom(current, parts, i, value) ==
    LET p     == parsePathPart(parts[i])
        key   == p.key
        index == p.index
    IN  IF i = Len(parts)
        THEN IF index >= 0
             THEN Put(current, key,
                      VList([ArrAt(current, key, index) EXCEPT ![index + 1] = value]))
             ELSE Put(current, key, value)
        ELSE IF index >= 0
        THEN LET arr     == ArrAt(current, key, index)
                 nextMap == IF arr[index + 1].t = "map" THEN arr[index + 1].m ELSE EmptyMap
             IN  Put(current, key,
                     VList([arr EXCEPT ![index + 1] =
                                VMap(setNestedFrom(nextMap, parts, i + 1, value))]))
        ELSE IF key \notin DOMAIN current
        THEN Put(current, key, VMap(setNestedFrom(EmptyMap, parts, i + 1, value)))
        ELSE IF current[key].t = "map"
        THEN Put(current, key, VMap(setNestedFrom(current[key].m, parts, i + 1, value)))
        ELSE setNestedFrom(current, parts, i + 1, value)

\* parts[:len(parts)-1] of an empty parts is a run-time panic
setNestedPanics(path) == parsePath(path) = <<>>

setNestedValue(m, path, value) == setNestedFrom(m, parsePath(path), 1, value)

(***************************************************************************)
(* DocumentFlattener: flattenMap.  loc is the location the entry was       *)
(* emitted for, as the keys and list positions walked from the prefix.     *)
(***************************************************************************)
Seg(key, index) == [key |-> key, index |-> index]

\* loc with the list position i put on its last key
AtIndex(loc, i) == [loc EXCEPT ![Len(loc)] = Seg(loc[Len(loc)].key, i)]

RECURSIVE flattenMap(_, _, _)
flattenItem(item, itemPath, loc) ==
    IF item.t = "map" THEN flattenMap(item.m, itemPath, loc)
    ELSE {[path |-> itemPath, val |-> item, loc |-> loc]}

\* the list taken apart only: nothing written at the list's own path
flattenElements(v, path, loc) ==
    IF v.t = "map" THEN flattenMap(v.m, path, loc)
    ELSE IF v.t = "list"
    THEN UNION {flattenItem(v.l[i], path \o <<"[">> \o Itoa(i - 1) \o <<"]">>,
                            AtIndex(loc, i - 1)) : i \in 1..Len(v.l)}
    ELSE {[path |-> path, val |-> v, loc |-> loc]}

flattenEntry(v, path, loc) ==
    IF v.t = "map" THEN flattenMap(v.m, path, loc)
    ELSE IF v.t = "list"
    THEN {[path |-> path, val |-> v, loc |-> loc]}
         \cup UNION {flattenItem(v.l[i], path \o <<"[">> \o Itoa(i - 1) \o <<"]">>,
                                 AtIndex(loc, i - 1)) : i \in 1..Len(v.l)}
    ELSE {[path |-> path, val |-> v, loc |-> loc]}

flattenMap(m, pre, loc) ==
    UNION {flattenEntry(m[k], pre \o <<".">> \o k, Append(loc, Seg(k, -1))) : k \in DOMAIN m}

(***************************************************************************)
(* The Documents of the document engine run.                               *)
(***************************************************************************)
kA    == <<"a">>
kB    == <<"b">>
kDot  == <<"a", ".", "b">>          \* a key holding a dot, as label keys do
sSpec == <<"s", "p", "e", "c">>
sX    == <<"x">>

MapsOver(K, V)  == UNION {[S -> V] : S \in SUBSET K}
ListsOver(V)    == UNION {[1..n -> V] : n \in 0..MaxListLen}

Scalars == {VInt(1), VStr(sX)}


sReplicas == <<"r", "e", "p", "l", "i", "c", "a", "s">>
sPorts    == <<"p", "o", "r", "t", "s">>
sPort     == <<"p", "o", "r", "t">>

\* the spec of a workload, {replicas: 3, ports: [{port: 80}]}, and the object
\* that holds it
SpecB == Put(Put(EmptyMap, sReplicas, VInt(3)),
             sPorts, VList(<<VMap(Put(EmptyMap, sPort, VInt(80)))>>))
ObjB  == Put(EmptyMap, sSpec, VMap(SpecB))

\* a Document: key a holds any value, keys b and a.b hold scalars; and the two
\* workload documents
Docs ==
    LET Vals1 == Scalars \cup {VMap(f) : f \in MapsOver({kA, kB}, Scalars)}
                         \cup {VList(l) : l \in ListsOver(Scalars)}
        Vals2 == Scalars \cup {VMap(f) : f \in MapsOver({kA}, Vals1)}
                         \cup {VList(l) : l \in ListsOver(Vals1)}
        \* Nil for a key the Document does not have
        DocOf(a, b, d) ==
            [k \in {x \in {kA, kB, kDot} :
                      (IF x = kA THEN a ELSE IF x = kB THEN b ELSE d) # Nil} |->
                IF k = kA THEN a ELSE IF k = kB THEN b ELSE d]
    IN  {DocOf(a, b, d) : a \in Vals2 \cup {Nil}, b \in Scalars \cup {Nil},
                          d \in Scalars \cup {Nil}}
        \cup {SpecB, ObjB}

(***************************************************************************)
(* The document engine run: flattenMap(doc, prefix, result), then          *)
(* BuildNestedMap(result), whose range loop visits the keys in any order.  *)
(***************************************************************************)
PrefixLoc(pre) == IF pre = <<>> THEN <<>> ELSE <<Seg(pre, -1)>>

\* the maps flattenMap can leave in `result`: two entries written at one path
\* leave the one the map iteration wrote last
ResultsOf(em) ==
    LET paths == {e.path : e \in em}
    IN  {f \in [paths -> {e.val : e \in em}] :
            \A p \in paths : \E e \in em : e.path = p /\ e.val = f[p]}

\* the texts a --set value is coerced from
CoerceTexts ==
    {<<"t", "r", "u", "e">>, <<"f", "a", "l", "s", "e">>, <<"T", "r", "u", "e">>, <<"4", "2">>, <<"3", ".", "1", "4">>, <<"l", "a", "t", "e", "s", "t">>, <<"1", "0">>, <<"3">>,
     <<"1", "e", "5">>, <<"1", ".", "5", "e", "3">>, <<"9", "9", "9", "9", "9", "9", "9", "9", "9", "9", "9", "9", "9", "9", "9", "9", "9", "9", "9", "9">>, 
     <<"9", "2", "2", "3", "3", "7", "2", "0", "3", "6", "8", "5", "4", "7", "7", "5", "8", "0", "8">>, <<"-", "7">>, <<"+", "5">>, <<"0", "0", "7">>,
     <<".", "5">>, <<"5", ".">>, <<"1", ".", "2", ".", "3">>, <<"-">>, <<".">>, <<"1", "e">>, <<"I", "n", "f">>, <<>>, <<"a", "=", "b">>}

\* the --set lists of the document engine run: one assignment of every text to
\* one path, and the lists of indexed, bracketed and malformed paths
AssignLists ==
    {<<<<"k", "=">> \o t>> : t \in CoerceTexts}
    \cup {<<<<"s", "p", "e", "c", ".", "r", "e", "p", "l", "i", "c", "a", "s", "=", "3">>, <<"s", "p", "e", "c", ".", "p", "o", "r", "t", "s", "[", "0", "]", ".", "p", "o", "r", "t", "=", "8", "0">>, <<"s", "p", "e", "c", ".", "p", "o", "r", "t", "s", "[", "0", "]", ".", "t", "a", "r", "g", "e", "t", "P", "o", "r", "t", "=", "8", "0", "8", "0">>>>,
          <<<<"s", "p", "e", "c", ".", "p", "o", "r", "t", "s", "[", "0", "]", ".", "t", "a", "r", "g", "e", "t", "P", "o", "r", "t", "=", "8", "0", "8", "0">>, <<"s", "p", "e", "c", ".", "r", "e", "p", "l", "i", "c", "a", "s", "=", "3">>, <<"s", "p", "e", "c", ".", "p", "o", "r", "t", "s", "[", "0", "]", ".", "p", "o", "r", "t", "=", "8", "0">>>>,
          <<<<"s", "p", "e", "c", ".", "p", "o", "r", "t", "s", "[", "0", "=", "8", "0">>>>, <<<<"a", "[", "0", "=", "v">>>>, <<<<"a", "[", "=", "v">>>>, <<<<"a", "]", "=", "v">>>>,
          <<<<"a", "[", "x", "]", "=", "v">>>>, <<<<"a", "[", "-", "1", "]", "=", "v">>>>, <<<<"a", "[", "]", "=", "v">>>>, <<<<"a", "[", "0", "]", "=", "v">>>>, <<<<"a", "[", "1", "]", "=", "v">>>>,
          <<<<"a", "[", "0", "]", "[", "1", "]", "=", "v">>>>, <<<<"a", "[", "0", "]", ".", "b", "[", "1", "]", "=", "v">>>>, <<<<"a", "[", "x", "]", "=", "v">>, <<"a", ".", "b", "=", "1">>>>,
          <<<<"a", ".", ".", "b", "=", "v">>>>, <<<<".", "=", "v">>>>, <<<<"k">>>>,
          <<<<"s", "p", "e", "c", "=", "5">>, <<"s", "p", "e", "c", ".", "r", "e", "p", "l", "i", "c", "a", "s", "=", "3">>>>, <<<<".", ".", "=", "v">>>>, <<<<"[", "0", "]", "=", "v">>>>, <<<<"a", ".", "=", "v">>>>}

RTInit ==
    /\ \/ /\ rpc = "start"
          /\ doc \in Docs
          /\ prefix \in {<<>>, sSpec}
          /\ assignments = <<>>
       \/ \* a seed is flattened and --set values are laid over it
          LET SeedSpecs == {SpecB, Put(EmptyMap, sPorts, VList(<<VInt(80)>>)),
                            Put(EmptyMap, sPorts, VList(<<>>))}
              Overrides == { <<<<"s", "p", "e", "c", ".", "p", "o", "r", "t", "s", "[", "0", "]", ".", "p", "o", "r", "t", "=", "8", "0", "8", "0">>>>, <<<<"s", "p", "e", "c", ".", "r", "e", "p", "l", "i", "c", "a", "s", "=", "5">>>>,
                             <<<<"s", "p", "e", "c", ".", "r", "e", "p", "l", "i", "c", "a", "s", "=", "5">>, <<"s", "p", "e", "c", ".", "p", "o", "r", "t", "s", "[", "0", "]", ".", "p", "o", "r", "t", "=", "8", "0", "8", "0">>>> }
          IN  /\ rpc = "start"
              /\ doc \in SeedSpecs
              /\ prefix = sSpec
              /\ assignments \in Overrides
       \/ /\ rpc = "parse"
          /\ doc = EmptyMap
          /\ prefix = <<>>
          /\ assignments \in AssignLists
    /\ emitted = {}
    /\ vm = EmptyMap
    /\ todo = {}
    /\ nested = EmptyMap
    /\ aliased = {}

Flatten ==
    /\ rpc = "start"
    /\ emitted' = flattenMap(doc, prefix, PrefixLoc(prefix))
    /\ vm' \in ResultsOf(emitted')
    /\ todo' = DOMAIN vm'
    /\ rpc' = "flattened"
    /\ UNCHANGED <<assignments, doc, prefix, nested, aliased>>

\* what a walk along the tokens of `path` finds in m (Nil when nothing is there)
RECURSIVE valueAt(_, _, _)
valueAt(m, path, i) ==
    LET tok == Tokens(path)[i]
        v   == IF tok.key \in DOMAIN m THEN m[tok.key] ELSE Nil
        w   == IF tok.index < 0 THEN v
               ELSE IF v.t = "list" /\ tok.index < Len(v.l) THEN v.l[tok.index + 1]
               ELSE Nil
    IN  IF i = Len(Tokens(path)) THEN w
        ELSE IF w.t = "map" THEN valueAt(w.m, path, i + 1)
        ELSE Nil

\* one turn of the range loop of BuildNestedMap.  `current[key] = value` stores
\* a list value by reference: the ValueMap and the result map then share the
\* slice, and a later write through it shows in the ValueMap, within the
\* length the ValueMap's slice has
BuildEntry ==
    LET \* the walk for `path` goes through the slice stored for key k:
        \* `arr, ok := current[key].([]interface{})` finds that slice, and every
        \* write below it lands in its backing array or in the maps it holds
        passesThrough(k, path) ==
            LET p == Tokens(k)
                q == Tokens(path)
                n == Len(p)
            IN  /\ n >= 1
                /\ Len(q) >= n
                /\ SubSeq(q, 1, n - 1) = SubSeq(p, 1, n - 1)
                /\ p[n].index < 0
                /\ q[n].key = p[n].key
                /\ q[n].index >= 0
        \* the final write for `path` stores another value where the slice of
        \* key k was stored, or above it
        replaces(k, path) ==
            LET p == Tokens(k)
                q == Tokens(path)
                m == Len(q)
            IN  /\ path # k
                /\ m <= Len(p)
                /\ SubSeq(q, 1, m - 1) = SubSeq(p, 1, m - 1)
                /\ q[m].key = p[m].key
                /\ ~passesThrough(k, path)
    IN
    /\ rpc \in {"flattened", "merged", "parsed", "assembling"}
    /\ rpc = "flattened" => assignments = <<>>
    /\ \E path \in todo :
        IF setNestedPanics(path)
        THEN /\ rpc' = "panic"
             /\ UNCHANGED <<todo, nested, vm, aliased>>
        ELSE /\ nested' = setNestedValue(nested, path, vm[path])
             /\ todo' = todo \ {path}
             /\ rpc' = "assembling"
             /\ vm' = [k \in DOMAIN vm |->
                         LET now == valueAt(nested', k, 1)
                         IN  IF k \in aliased /\ passesThrough(k, path) /\ now.t = "list"
                             THEN VList(SubSeq(now.l, 1, Len(vm[k].l)))
                             ELSE vm[k]]
             /\ aliased' = {k \in (aliased \cup {path}) :
                               /\ vm'[k].t = "list"
                               /\ ~replaces(k, path)
                               /\ valueAt(nested', k, 1) = vm'[k]}
    /\ UNCHANGED <<assignments, doc, prefix, emitted>>

BuildReturn ==
    /\ rpc \in {"flattened", "merged", "parsed", "assembling"}
    /\ rpc = "flattened" => assignments = <<>>
    /\ todo = {}
    /\ rpc' = "assembled"
    /\ UNCHANGED <<assignments, doc, prefix, emitted, vm, todo, nested, aliased>>


(***************************************************************************)
(* sort.Strings: byte-wise lexicographic order.                            *)
(***************************************************************************)
\* the characters the model uses, in ASCII order
Ascii == <<" ", "*", "+", "-", ".", "/",
           "0", "1", "2", "3", "4", "5", "6", "7", "8", "9", "=",
           "A", "B", "C", "D", "E", "F", "G", "H", "I", "J", "K", "L", "M",
           "N", "O", "P", "Q", "R", "S", "T", "U", "V", "W", "X", "Y", "Z",
           "[", "]",
           "a", "b", "c", "d", "e", "f", "g", "h", "i", "j", "k", "l", "m",
           "n", "o", "p", "q", "r", "s", "t", "u", "v", "w", "x", "y", "z">>

CharCode(c) == CHOOSE i \in 1..Len(Ascii) : Ascii[i] = c

IsLower(c) == CharCode(c) >= CharCode("a") /\ CharCode(c) <= CharCode("z")
ToUpper(c) == IF IsLower(c) THEN Ascii[CharCode(c) - (CharCode("a") - CharCode("A"))] ELSE c

RECURSIVE StrLess(_, _)
StrLess(a, b) == IF b = <<>> THEN FALSE
                 ELSE IF a = <<>> THEN TRUE
                 ELSE IF a[1] = b[1] THEN StrLess(Tail(a), Tail(b))
                 ELSE CharCode(a[1]) < CharCode(b[1])

RECURSIVE SortStrings(_)
SortStrings(S) == IF S = {} THEN <<>>
                  ELSE LET least == CHOOSE x \in S : \A y \in S \ {x} : StrLess(x, y)
                       IN  <<least>> \o SortStrings(S \ {least})

(***************************************************************************)
(* SchemaExtractor.  A definition of the raw type graph is a record        *)
(*   hasProps, props : whether "properties" is present, and its map        *)
(*   required        : the strings of "required"                           *)
(*   type            : "type", "" when absent                              *)
(*   ref             : the schema name in "$ref" after the prefix          *)
(*                     "#/components/schemas/", "" when absent             *)
(*   hasAdd, addType : "additionalProperties" is a map, and its "type"     *)
(*   items           : "items": <<>> when absent, else <<[type, ref]>>     *)
(*   default         : "default", Nil when absent                          *)
(*   description     : "description" as text tokens, <<>> when absent      *)
(* Every property value is a JSON object, as in an OpenAPI document.       *)
(* The repository holds two extractFields, the one of src/unnamed/part_003 *)
(* ("part_003") and the one of src/pkg/client/schema.go ("schema.go").     *)
(***************************************************************************)
Impls == {"part_003", "schema.go"}

NoField == [Path |-> <<>>, Name |-> <<>>, Type |-> "", Description |-> <<>>,
            Required |-> FALSE, Default |-> Nil, Items |-> <<>>, Properties |-> <<>>]

\* the order in which extractFields walks the properties
propNames(impl, def) ==
    IF impl = "part_003"
    THEN LET requiredNames == {n \in DOMAIN def.props : n \in def.required}
             optionalNames == {n \in DOMAIN def.props : n \notin def.required}
         IN  SortStrings(requiredNames) \o SortStrings(optionalNames)
    ELSE SortStrings(DOMAIN def.props)

RECURSIVE extractFields(_, _, _, _)
\* the FieldSchema of a property that carries items
itemField(impl, items, path, allSchemas) ==
    IF items.ref # "" /\ items.ref \in DOMAIN allSchemas
    THEN [NoField EXCEPT !.Type = "object",
                         !.Properties = extractFields(impl, allSchemas[items.ref],
                                                      path \o <<"[", "*", "]">>, allSchemas)]
    ELSE [NoField EXCEPT !.Type = items.type]

\* the body of the loop of extractFields for one property
fieldOf(impl, name, propDef, pre, isRequired, allSchemas) ==
    LET path == IF pre # <<>> THEN pre \o <<".">> \o name ELSE name
        f0 == [NoField EXCEPT !.Path = path, !.Name = name, !.Required = isRequired,
                              !.Type = propDef.type, !.Default = propDef.default,
                              !.Description = propDef.description]
        f1 == IF propDef.ref # "" /\ propDef.ref \in DOMAIN allSchemas
              THEN [f0 EXCEPT !.Type = "object",
                              !.Properties = extractFields(impl, allSchemas[propDef.ref],
                                                           path, allSchemas)]
              ELSE f0
        f2 == IF f1.Type # "object" THEN f1
              ELSE IF impl = "part_003" /\ propDef.hasAdd
              THEN IF propDef.addType # ""
                   THEN [f1 EXCEPT !.Description =
                                       <<"Map of string to ", propDef.addType, ". ">>
                                       \o f1.Description]
                   ELSE f1
              ELSE IF Len(f1.Properties) = 0
              THEN [f1 EXCEPT !.Properties = extractFields(impl, propDef, path, allSchemas)]
              ELSE f1
    IN  IF f2.Type = "array" /\ propDef.items # <<>>
        THEN [f2 EXCEPT !.Items = <<itemField(impl, propDef.items[1], path, allSchemas)>>]
        ELSE f2

\* apiVersion, kind and status are skipped at the root
skipped(name, pre) == pre = <<>> /\ name \in {<<"a", "p", "i", "V", "e", "r", "s", "i", "o", "n">>, <<"k", "i", "n", "d">>, <<"s", "t", "a", "t", "u", "s">>}

RECURSIVE fieldsFrom(_, _, _, _, _, _)
fieldsFrom(impl, def, names, i, pre, allSchemas) ==
    IF i > Len(names) THEN <<>>
    ELSE (IF skipped(names[i], pre) THEN <<>>
          ELSE <<fieldOf(impl, names[i], def.props[names[i]], pre,
                         names[i] \in def.required, allSchemas)>>)
         \o fieldsFrom(impl, def, names, i + 1, pre, allSchemas)

extractFields(impl, def, pre, allSchemas) ==
    IF ~def.hasProps THEN <<>>
    ELSE fieldsFrom(impl, def, propNames(impl, def), 1, pre, allSchemas)

\* createBasicSchema: the four fields of the basic shape
createBasicSchema ==
    << [NoField EXCEPT !.Path = <<"m", "e", "t", "a", "d", "a", "t", "a", ".", "n", "a", "m", "e">>, !.Name = <<"n", "a", "m", "e">>, !.Type = "string",
                       !.Description = <<"Name of the resource">>, !.Required = TRUE],
       [NoField EXCEPT !.Path = <<"m", "e", "t", "a", "d", "a", "t", "a", ".", "n", "a", "m", "e", "s", "p", "a", "c", "e">>, !.Name = <<"n", "a", "m", "e", "s", "p", "a", "c", "e">>,
                       !.Type = "string", !.Description = <<"Namespace of the resource">>],
       [NoField EXCEPT !.Path = <<"m", "e", "t", "a", "d", "a", "t", "a", ".", "l", "a", "b", "e", "l", "s">>, !.Name = <<"l", "a", "b", "e", "l", "s">>, !.Type = "object",
                       !.Description = <<"Labels for the resource">>],
       [NoField EXCEPT !.Path = <<"m", "e", "t", "a", "d", "a", "t", "a", ".", "a", "n", "n", "o", "t", "a", "t", "i", "o", "n", "s">>, !.Name = <<"a", "n", "n", "o", "t", "a", "t", "i", "o", "n", "s">>,
                       !.Type = "object", !.Description = <<"Annotations for the resource">>] >>

(***************************************************************************)
(* The type graph of the model.                                            *)
(***************************************************************************)
Prop(type) == [hasProps |-> FALSE, props |-> <<>>, required |-> {}, type |-> type,
               ref |-> "", hasAdd |-> FALSE, addType |-> "", items |-> <<>>,
               default |-> Nil, description |-> <<>>]

Obj(props, required) == [Prop("object") EXCEPT !.hasProps = TRUE, !.props = props,
                                               !.required = required]

Ref(name) == [Prop("") EXCEPT !.ref = name]

ArrayOf(type, ref) == [Prop("array") EXCEPT !.items = <<[type |-> type, ref |-> ref]>>]

MapOf(type) == [Prop("object") EXCEPT !.hasAdd = TRUE, !.addType = type]

\* components/schemas
TypeGraph ==
    LET TypeT ==
                Obj((<<"b">> :> Prop("integer")) @@ (<<"a">> :> Prop("string"))
                    @@ (<<"o">> :> Obj((<<"z">> :> Prop("string")) @@ (<<"y">> :> Prop("boolean")), {<<"z">>})),
                    {<<"b">>})
        TypeP ==
                Obj((<<"p", "o", "r", "t">> :> Prop("integer")) @@ (<<"n", "a", "m", "e">> :> Prop("string")), {<<"p", "o", "r", "t">>})
        TypeObjectMeta ==
                Obj((<<"n", "a", "m", "e">> :> Prop("string")) @@ (<<"l", "a", "b", "e", "l", "s">> :> MapOf("string")), {})
        TypeWorkloadSpec ==
                Obj((<<"r", "e", "p", "l", "i", "c", "a", "s">> :> Prop("integer")) @@ (<<"p", "o", "r", "t", "s">> :> ArrayOf("integer", ""))
                    @@ (<<"s", "e", "l", "e", "c", "t", "o", "r">> :> MapOf("string"))
                    @@ (<<"t", "p", "l">> :> Obj((<<"n", "a", "m", "e">> :> Prop("string")), {})),
                    {<<"r", "e", "p", "l", "i", "c", "a", "s">>})
        TypeBare ==
                Obj((<<"a", "p", "i", "V", "e", "r", "s", "i", "o", "n">> :> Prop("string")) @@ (<<"k", "i", "n", "d">> :> Prop("string")), {})
        TypeWorkload(required) ==
                Obj((<<"a", "p", "i", "V", "e", "r", "s", "i", "o", "n">> :> Prop("string")) @@ (<<"k", "i", "n", "d">> :> Prop("string"))
                    @@ (<<"m", "e", "t", "a", "d", "a", "t", "a">> :> Ref("ObjectMeta")) @@ (<<"s", "p", "e", "c">> :> Ref("WorkloadSpec"))
                    @@ (<<"s", "t", "a", "t", "u", "s">> :> Obj((<<"r", "e", "a", "d", "y">> :> Prop("boolean")), {})),
                    required)
        TypeTuned ==
                Obj((<<"a", "p", "i", "V", "e", "r", "s", "i", "o", "n">> :> Prop("string")) @@ (<<"k", "i", "n", "d">> :> Prop("string"))
                    @@ (<<"s", "p", "e", "c">> :> Obj((<<"s", "u", "r", "g", "e">> :> Prop("integer")) @@ (<<"w", "e", "i", "g", "h", "t">> :> Prop("number")), {})),
                    {<<"s", "p", "e", "c">>})
    IN  ("T" :> TypeT) @@ ("P" :> TypeP) @@ ("Tuned" :> TypeTuned) @@ ("ObjectMeta" :> TypeObjectMeta)
        @@ ("WorkloadSpec" :> TypeWorkloadSpec)
        @@ ("Workload" :> TypeWorkload({<<"s", "p", "e", "c">>})) @@ ("Loose" :> TypeWorkload({}))
        @@ ("Bare" :> TypeBare)
        @@ ("Node" :> Obj((<<"v", "a", "l">> :> Prop("string")) @@ (<<"n", "e", "x", "t">> :> Ref("Node")), {}))
        @@ ("Ring" :> Obj((<<"r", "i", "n", "g">> :> ArrayOf("", "Ring")), {}))

\* the definitions handed to extractFields: some of the properties of PropPool,
\* some of them required
XDefs ==
    LET PropPool ==
            (<<"i", "m", "a", "g", "e">> :> Prop("string")) @@ (<<"n", "a", "m", "e">> :> Prop("string"))
            @@ (<<"r", "e", "p", "l", "i", "c", "a", "s">> :> [Prop("integer") EXCEPT !.default = VInt(1)])
            @@ (<<"k", "i", "n", "d">> :> Prop("string")) @@ (<<"t", "p", "l">> :> Ref("T"))
            @@ (<<"p", "o", "r", "t", "s">> :> ArrayOf("", "P")) @@ (<<"l", "a", "b", "e", "l", "s">> :> MapOf("string"))
            @@ (<<"n", "e", "x", "t">> :> Ref("Node")) @@ (<<"r", "i", "n", "g">> :> ArrayOf("", "Ring"))
        XNames == {<<"i", "m", "a", "g", "e">>, <<"n", "a", "m", "e">>, <<"r", "e", "p", "l", "i", "c", "a", "s">>, <<"k", "i", "n", "d">>, <<"t", "p", "l">>, <<"l", "a", "b", "e", "l", "s">>, <<"n", "e", "x", "t">>, <<"r", "i", "n", "g">>}
        XRequired == {<<"i", "m", "a", "g", "e">>, <<"n", "a", "m", "e">>, <<"r", "e", "p", "l", "i", "c", "a", "s">>, <<"t", "p", "l">>}
    IN  {Obj([n \in S |-> PropPool[n]], R) : S \in SUBSET XNames,
                                             R \in SUBSET XRequired}

(***************************************************************************)
(* One call of extractFields.                                              *)
(***************************************************************************)
\* resourceToKind of schema.go: the irregulars, the plural suffix, the capital
resourceToKind(resource) ==
    LET n == Len(resource)
        ends(suffix) == n >= Len(suffix) /\ SubSeq(resource, n - Len(suffix) + 1, n) = suffix
        single == IF ends(<<"i", "e", "s">>) THEN SubSeq(resource, 1, n - 3) \o <<"y">>
                  ELSE IF ends(<<"s", "e", "s">>) THEN SubSeq(resource, 1, n - 2)
                  ELSE IF ends(<<"s">>) THEN SubSeq(resource, 1, n - 1)
                  ELSE resource
    IN  IF resource = <<"e", "n", "d", "p", "o", "i", "n", "t", "s">> THEN <<"E", "n", "d", "p", "o", "i", "n", "t", "s">>
        ELSE IF resource = <<"q", "u", "e", "u", "e", "s">> THEN <<"Q", "u", "e", "u", "e">>
        ELSE IF single = <<>> THEN single
        ELSE <<ToUpper(single[1])>> \o Tail(single)

\* what findResourceSchema can return: the names of the definitions that the
\* first strategy with a match can meet first in its range loop (the empty
\* name alone when no strategy matches and nil is returned)
findResourceSchema(schemas, gvk, g) ==
    LET ContainsStr(str, sub) ==
            \E i \in 0..(Len(str) - Len(sub)) : SubSeq(str, i + 1, i + Len(sub)) = sub
        ToLower(str) ==
            [i \in 1..Len(str) |->
                IF CharCode(str[i]) >= CharCode("A") /\ CharCode(str[i]) <= CharCode("Z")
                THEN Ascii[CharCode(str[i]) + (CharCode("a") - CharCode("A"))]
                ELSE str[i]]
        \* strings.Split(str, "."), as the set of its parts
        Split(str) ==
            {SubSeq(str, a, b) : <<a, b>> \in
                {ab \in (1..(Len(str) + 1)) \X (0..Len(str)) :
                    /\ ab[1] <= ab[2] + 1
                    /\ ab[1] = 1 \/ str[ab[1] - 1] = "."
                    /\ ab[2] = Len(str) \/ str[ab[2] + 1] = "."
                    /\ \A i \in ab[1]..ab[2] : str[i] # "."}}
        first(str) == IF IndexOf(str, ".") = 0 THEN str
                      ELSE SubSeq(str, 1, IndexOf(str, ".") - 1)
        gvkToSchemaRef ==
            IF gvk.Group = <<>>
            THEN <<"i", "o", ".", "k", "8", "s", ".", "a", "p", "i", ".", "c", "o", "r", "e", ".">> \o gvk.Version \o <<".">> \o gvk.Kind
            ELSE <<"i", "o", ".", "k", "8", "s", ".", "a", "p", "i", ".">> \o first(gvk.Group) \o <<".">> \o gvk.Version
                 \o <<".">> \o gvk.Kind
        hasProps(name) == schemas[name].hasProps
        bySuffix == {name \in DOMAIN schemas :
                        /\ Len(name) >= Len(gvk.Kind) + 1
                        /\ SubSeq(name, Len(name) - Len(gvk.Kind), Len(name)) = <<".">> \o gvk.Kind
                        /\ hasProps(name)}
        byGroup  == {name \in DOMAIN schemas :
                        /\ \A part \in Split(g.Group) :
                              ContainsStr(ToLower(name), ToLower(part))
                        /\ ContainsStr(ToLower(name), ToLower(gvk.Kind))
                        /\ hasProps(name)}
        builtIn  == {name \in DOMAIN schemas : ContainsStr(name, gvkToSchemaRef)}
    IN  IF bySuffix # {} THEN bySuffix
        ELSE IF byGroup # {} THEN byGroup
        ELSE IF builtIn # {} THEN builtIn
        ELSE {<<>>}

\* one call of extractFields, or one call of findResourceSchema on the
\* schemas of an API document
XInit ==
    /\ \/ /\ xpc = "start"
          /\ xdef \in [def : XDefs, pre : {<<>>, sSpec}]
          /\ ximpl \in Impls
       \/ LET Pool == (<<"i", "o", ".", "k", "8", "s", ".", "a", "p", "i", ".", "a", "p", "p", "s", ".", "v", "1", ".", "D", "e", "p", "l", "o", "y", "m", "e", "n", "t">> :> Obj(<<>>, {}))
                       @@ (<<"c", "o", "m", ".", "e", "x", "a", "m", "p", "l", "e", ".", "a", "p", "p", "s", ".", "v", "1", ".", "D", "e", "p", "l", "o", "y", "m", "e", "n", "t">> :> Obj(<<>>, {}))
                       @@ (<<"i", "o", ".", "k", "8", "s", ".", "a", "p", "i", ".", "a", "p", "p", "s", ".", "v", "1", ".", "D", "e", "p", "l", "o", "y", "m", "e", "n", "t", "S", "p", "e", "c">> :> Obj(<<>>, {}))
                       @@ (<<"i", "o", ".", "k", "8", "s", ".", "a", "p", "i", ".", "a", "p", "p", "s", ".", "v", "1", ".", "D", "e", "p", "l", "o", "y", "m", "e", "n", "t", "L", "i", "s", "t">> :> Prop("object"))
                       @@ (<<"i", "o", ".", "k", "8", "s", ".", "a", "p", "i", "m", "a", "c", "h", "i", "n", "e", "r", "y", ".", "p", "k", "g", ".", "a", "p", "i", "s", ".", "m", "e", "t", "a", ".", "v", "1", ".", "O", "b", "j", "e", "c", "t", "M", "e", "t", "a">> :> Obj(<<>>, {}))
                       @@ (<<"i", "o", ".", "k", "8", "s", ".", "a", "p", "i", ".", "c", "o", "r", "e", ".", "v", "1", ".", "P", "o", "d">> :> Obj(<<>>, {}))
                       @@ (<<"i", "o", ".", "k", "8", "s", ".", "a", "p", "i", ".", "c", "o", "r", "e", ".", "v", "1", ".", "P", "o", "d", "S", "p", "e", "c">> :> Obj(<<>>, {}))
               GVRs3 == {[Group |-> <<"a", "p", "p", "s">>, Version |-> <<"v", "1">>, Resource |-> <<"d", "e", "p", "l", "o", "y", "m", "e", "n", "t", "s">>],
                         [Group |-> <<>>, Version |-> <<"v", "1">>, Resource |-> <<"p", "o", "d", "s">>]}
           IN  /\ xpc = "find"
               /\ xdef \in [schemas : {[n \in S |-> Pool[n]] : S \in SUBSET DOMAIN Pool},
                             gvr : GVRs3]
               /\ ximpl = "part_003"
    /\ xout = <<>>

\* parseOpenAPISchema: gvk is gvrToGVK(gvr), and the range loops of
\* findResourceSchema meet the names in any order
FindResourceSchema ==
    /\ xpc = "find"
    /\ \E name \in findResourceSchema(xdef.schemas,
                                       [Group |-> xdef.gvr.Group, Version |-> xdef.gvr.Version,
                                        Kind |-> resourceToKind(xdef.gvr.Resource)],
                                       xdef.gvr) :
         xout' = <<name>>
    /\ xpc' = "found"
    /\ UNCHANGED <<xdef, ximpl>>

\* the nesting of calls the goroutine stack has room for
MaxDepth == 4

\* extractFields(def, ...) nests its calls deeper than `room`: the calls are
\* those of the $ref branch, of the nested-object branch and of the items branch
RECURSIVE tooDeep(_, _, _, _)
tooDeep(impl, def, allSchemas, room) ==
    IF ~def.hasProps THEN FALSE
    ELSE IF room = 0 THEN TRUE
    ELSE \E name \in DOMAIN def.props :
           LET propDef == def.props[name]
               viaRef  == propDef.ref # "" /\ propDef.ref \in DOMAIN allSchemas
           IN  \/ viaRef /\ tooDeep(impl, allSchemas[propDef.ref], allSchemas, room - 1)
               \/ /\ ~viaRef
                  /\ propDef.type = "object"
                  /\ ~(impl = "part_003" /\ propDef.hasAdd)
                  /\ tooDeep(impl, propDef, allSchemas, room - 1)
               \/ /\ ~viaRef
                  /\ propDef.type = "array"
                  /\ propDef.items # <<>>
                  /\ propDef.items[1].ref # ""
                  /\ propDef.items[1].ref \in DOMAIN allSchemas
                  /\ tooDeep(impl, allSchemas[propDef.items[1].ref], allSchemas, room - 1)

\* one call of extractFields: it returns the field tree, or the recursion
\* outgrows the stack and the process dies
ExtractFields ==
    /\ xpc = "start"
    /\ IF tooDeep(ximpl, xdef.def, TypeGraph, MaxDepth)
       THEN /\ xpc' = "overflow"
            /\ xout' = xout
       ELSE /\ xout' = extractFields(ximpl, xdef.def, xdef.pre, TypeGraph)
            /\ xpc' = "done"
    /\ UNCHANGED <<xdef, ximpl>>


(***************************************************************************)
(* ValueCoercer and ParseSetValues.                                        *)
(***************************************************************************)
\* strconv.ParseInt(s, 10, 64)
ParseInt(s) == Atoi(s)

\* strconv.ParseFloat(s, 64): a sign, then decimal digits with at most one '.',
\* then an exponent (e or E, a sign, digits); or a sign and inf, infinity or nan.
\* The texts of the model stay within the range of a float64.
ParseFloatOk(s) ==
    LET signed == Len(s) > 0 /\ s[1] \in {"+", "-"}
        body   == IF signed THEN SubSeq(s, 2, Len(s)) ELSE s
        ePos   == IF \E i \in 1..Len(body) : body[i] \in {"e", "E"}
                  THEN CHOOSE i \in 1..Len(body) :
                         body[i] \in {"e", "E"} /\ \A j \in 1..(i - 1) : body[j] \notin {"e", "E"}
                  ELSE Len(body) + 1
        mant   == SubSeq(body, 1, ePos - 1)
        exp0   == SubSeq(body, ePos + 1, Len(body))
        exp    == IF exp0 # <<>> /\ exp0[1] \in {"+", "-"} THEN Tail(exp0) ELSE exp0
        lower  == [i \in 1..Len(body) |->
                     IF body[i] = "I" THEN "i" ELSE IF body[i] = "N" THEN "n" ELSE body[i]]
    IN  \/ lower \in {<<"i", "n", "f">>, <<"i", "n", "f", "i", "n", "i", "t", "y">>, <<"n", "a", "n">>}
        \/ /\ \E i \in 1..Len(mant) : IsDigit(mant[i])
           /\ \A i \in 1..Len(mant) : IsDigit(mant[i]) \/ mant[i] = "."
           /\ Cardinality({i \in 1..Len(mant) : mant[i] = "."}) <= 1
           /\ ePos <= Len(body) =>
                 (exp # <<>> /\ \A i \in 1..Len(exp) : IsDigit(exp[i]))

\* the float attempt made before the integer attempt, without the test for '.'
floatFirst(value) ==
    IF value = <<"t", "r", "u", "e">> THEN VBool(TRUE)
    ELSE IF value = <<"f", "a", "l", "s", "e">> THEN VBool(FALSE)
    ELSE IF ParseFloatOk(value) THEN VFloat(value)
    ELSE IF ParseInt(value).ok THEN VInt(ParseInt(value).v)
    ELSE VStr(value)

parseValue(value) ==
    IF value = <<"t", "r", "u", "e">> THEN VBool(TRUE)
    ELSE IF value = <<"f", "a", "l", "s", "e">> THEN VBool(FALSE)
    ELSE IF ParseInt(value).ok THEN VInt(ParseInt(value).v)
    ELSE IF ParseFloatOk(value) /\ Contains(value, ".") THEN VFloat(value)
    ELSE VStr(value)

\* an entry without '=' taken as a key with an empty value
splitLoose(sv) ==
    LET eq    == IndexOf(sv, "=")
        key   == TrimSpace(SubSeq(sv, 1, eq - 1))
        value == TrimSpace(SubSeq(sv, eq + 1, Len(sv)))
    IN  IF eq = 0 THEN [ok |-> TRUE, key |-> TrimSpace(sv), value |-> <<>>]
        ELSE IF key = <<>> THEN [ok |-> FALSE, key |-> <<>>, value |-> <<>>]
        ELSE [ok |-> TRUE, key |-> key, value |-> value]

\* one --set entry through SplitN(sv, "=", 2) and the two TrimSpace: ok is FALSE
\* when there is no '=' or the key is empty
splitAssignment(sv) ==
    LET eq    == IndexOf(sv, "=")
        key   == TrimSpace(SubSeq(sv, 1, eq - 1))
        value == TrimSpace(SubSeq(sv, eq + 1, Len(sv)))
    IN  IF eq = 0 THEN [ok |-> FALSE, key |-> <<>>, value |-> <<>>]
        ELSE IF key = <<>> THEN [ok |-> FALSE, key |-> <<>>, value |-> <<>>]
        ELSE [ok |-> TRUE, key |-> key, value |-> value]

\* the loop of ParseSetValues from entry i on; err is TRUE for `return nil, err`
RECURSIVE ParseSetFrom(_, _, _)
ParseSetFrom(setValues, i, result) ==
    IF i > Len(setValues) THEN [err |-> FALSE, m |-> result]
    ELSE LET parts == splitAssignment(setValues[i])
         IN  IF ~parts.ok THEN [err |-> TRUE, m |-> EmptyMap]
             ELSE ParseSetFrom(setValues, i + 1,
                               Put(result, parts.key, parseValue(parts.value)))

ParseSetValues(setValues) == ParseSetFrom(setValues, 1, EmptyMap)

\* the document engine run that starts from --set texts: ParseSetValues makes
\* the ValueMap that BuildNestedMap then assembles
ParseSet ==
    /\ rpc = "parse"
    /\ LET parsed == ParseSetValues(assignments)
       IN  IF parsed.err
           THEN /\ rpc' = "error"
                /\ UNCHANGED <<vm, todo>>
           ELSE /\ vm' = parsed.m
                /\ todo' = DOMAIN parsed.m
                /\ rpc' = "parsed"
    /\ UNCHANGED <<assignments, doc, prefix, emitted, nested, aliased>>

\* fmt.Sprintf("%v", v) of a scalar
SprintV(v) ==
    IF v.t = "str" THEN v.s
    ELSE IF v.t = "int" THEN (IF v.i < 0 THEN <<"-">> \o Itoa(0 - v.i) ELSE Itoa(v.i))
    ELSE IF v.t = "bool" THEN (IF v.b THEN <<"t", "r", "u", "e">> ELSE <<"f", "a", "l", "s", "e">>)
    ELSE IF v.t = "float" THEN v.f
    ELSE <<"<", "n", "i", "l", ">">>

(***************************************************************************)
(* The prompts.  An answer is what promptui's Run returns: an interrupt,   *)
(* another error (end of input), or the text entered (a text the Validate  *)
(* function rejects is never returned) or the item selected.               *)
(***************************************************************************)
InputTexts == {<<>>, <<"7">>}
LineTexts  == {<<>>, <<"7">>, <<"x">>}

Interrupt == [kind |-> "interrupt", text |-> <<>>]
OtherErr  == [kind |-> "error", text |-> <<>>]
Text(s)   == [kind |-> "text", text |-> s]

DefaultStr(defaultVal) == IF defaultVal = Nil THEN <<>> ELSE SprintV(defaultVal)

\* the Validate function of the prompt of a field of this type
Validate(type, required, defaultStr, input) ==
    IF type = "integer"
    THEN IF input = <<>> THEN ~(required /\ defaultStr = <<>>) ELSE ParseInt(input).ok
    ELSE IF type = "number"
    THEN IF input = <<>> THEN ~(required /\ defaultStr = <<>>) ELSE ParseFloatOk(input)
    ELSE ~(required /\ input = <<>> /\ defaultStr = <<>>)

\* the answers a prompt for a scalar field can get
Answers(type, required, defaultStr) ==
    {Interrupt, OtherErr} \cup
    (IF type = "boolean" THEN {Text(<<"t", "r", "u", "e">>), Text(<<"f", "a", "l", "s", "e">>)}
     ELSE {Text(s) : s \in {x \in InputTexts : Validate(type, required, defaultStr, x)}})

Ok(v)  == [err |-> "none", val |-> v]
Err(e, v) == [err |-> e, val |-> v]

promptString(defaultVal, ans) ==
    IF ans.kind # "text" THEN Err(ans.kind, VStr(<<>>))
    ELSE IF ans.text = <<>> /\ DefaultStr(defaultVal) # <<>>
    THEN Ok(VStr(DefaultStr(defaultVal)))
    ELSE Ok(VStr(ans.text))

promptInteger(defaultVal, ans) ==
    IF ans.kind # "text" THEN Err(ans.kind, VInt(0))
    ELSE IF ans.text = <<>> /\ DefaultStr(defaultVal) = <<>> THEN Ok(VInt(0))
    ELSE LET result == IF ans.text = <<>> THEN DefaultStr(defaultVal) ELSE ans.text
         IN  IF ParseInt(result).ok THEN Ok(VInt(ParseInt(result).v))
             ELSE Err("error", VInt(0))

promptNumber(defaultVal, ans) ==
    IF ans.kind # "text" THEN Err(ans.kind, VFloat(<<"0">>))
    ELSE IF ans.text = <<>> /\ DefaultStr(defaultVal) = <<>> THEN Ok(VFloat(<<"0">>))
    ELSE LET result == IF ans.text = <<>> THEN DefaultStr(defaultVal) ELSE ans.text
         IN  IF ParseFloatOk(result) THEN Ok(VFloat(result))
             ELSE Err("error", VFloat(<<"0">>))

promptBoolean(ans) ==
    IF ans.kind # "text" THEN Err(ans.kind, VBool(FALSE))
    ELSE Ok(VBool(ans.text = <<"t", "r", "u", "e">>))

\* promptForField for every type but array (promptArray asks line by line)
promptForField(field, templateDefault, ans) ==
    LET defaultVal == IF templateDefault # Nil THEN templateDefault ELSE field.Default
    IN  IF field.Type = "boolean" THEN promptBoolean(ans)
        ELSE IF field.Type = "integer" THEN promptInteger(defaultVal, ans)
        ELSE IF field.Type = "number" THEN promptNumber(defaultVal, ans)
        ELSE promptString(defaultVal, ans)

\* the default promptForField works with
FieldDefault(field, templateDefault) ==
    IF templateDefault # Nil THEN templateDefault ELSE field.Default

\* inferType
inferType(val) ==
    IF val.t = "bool" THEN "boolean"
    ELSE IF val.t \in {"int", "float"} THEN "integer"
    ELSE IF val.t = "list" THEN "array"
    ELSE IF val.t = "map" THEN "object"
    ELSE "string"

\* the fields promptForFields prompts for, in the order of its walk
RECURSIVE promptOrder(_, _, _)
promptOrder(fields, i, flagKeys) ==
    IF i > Len(fields) THEN <<>>
    ELSE LET field == fields[i]
             here  ==
                IF field.Path \in flagKeys THEN <<>>
                ELSE IF HasPrefix(field.Path, <<"m", "e", "t", "a", "d", "a", "t", "a", ".">>) THEN <<>>
                ELSE IF ~(field.Required \/ HasPrefix(field.Path, <<"s", "p", "e", "c", ".">>)) THEN <<>>
                ELSE IF field.Type = "object" /\ Len(field.Properties) > 0
                THEN promptOrder(field.Properties, 1, flagKeys)
                ELSE IF field.Type = "object" THEN <<>>
                ELSE <<[field |-> field, templateDefault |-> Nil]>>
         IN  here \o promptOrder(fields, i + 1, flagKeys)

\* the fields promptForTemplateFields prompts for, in order
templateOrder(Values, flagKeys) ==
    LET specFields == SortStrings({path \in DOMAIN Values :
                                     HasPrefix(path, <<"s", "p", "e", "c", ".">>) /\ ~Contains(path, "[")})
        wanted == SelectSeq(specFields, LAMBDA path : path \notin flagKeys)
    IN  [i \in 1..Len(wanted) |->
            [field |-> [NoField EXCEPT !.Path = wanted[i], !.Name = wanted[i],
                                       !.Type = inferType(Values[wanted[i]])],
             templateDefault |-> Values[wanted[i]]]]

(***************************************************************************)
(* ManifestBuilder: BuildNestedMap over every iteration order,             *)
(* gvrToAPIVersion, gvrToKind, GenerateManifest.                           *)
(***************************************************************************)
\* the maps BuildNestedMap can have built after visiting exactly the keys of
\* done, by the number of keys visited: level n maps each n-element set of keys
\* to the results of all orders of visiting it
RECURSIVE BuildLevel(_, _)
BuildLevel(flatMap, n) ==
    IF n = 0 THEN [done \in {{}} |-> {EmptyMap}]
    ELSE LET prev == BuildLevel(flatMap, n - 1)
         IN  [done \in {S \in SUBSET DOMAIN flatMap : Cardinality(S) = n} |->
                UNION {{setNestedValue(m, path, flatMap[path]) : m \in prev[done \ {path}]}
                       : path \in done}]

\* BuildNestedMap panics when setNestedValue does on one of the keys
BuildNestedMapPanics(flatMap) == \E path \in DOMAIN flatMap : setNestedPanics(path)

\* the results BuildNestedMap can return, over the iteration orders of flatMap
BuildNestedMap(flatMap) ==
    BuildLevel(flatMap, Cardinality(DOMAIN flatMap))[DOMAIN flatMap]

gvrToAPIVersion(g) ==
    IF g.Group = <<>> THEN g.Version ELSE g.Group \o <<"/">> \o g.Version


\* the entries of the irregulars table for the resources of the model
irregulars ==
    (<<"d", "e", "p", "l", "o", "y", "m", "e", "n", "t", "s">> :> <<"D", "e", "p", "l", "o", "y", "m", "e", "n", "t">>) @@ (<<"c", "o", "n", "f", "i", "g", "m", "a", "p", "s">> :> <<"C", "o", "n", "f", "i", "g", "M", "a", "p">>)
    @@ (<<"i", "n", "g", "r", "e", "s", "s", "e", "s">> :> <<"I", "n", "g", "r", "e", "s", "s">>) @@ (<<"n", "e", "t", "w", "o", "r", "k", "p", "o", "l", "i", "c", "i", "e", "s">> :> <<"N", "e", "t", "w", "o", "r", "k", "P", "o", "l", "i", "c", "y">>)

\* the plural-to-singular step of gvrToKind
singular(resource) ==
    LET n == Len(resource)
    IN  IF n > 3 /\ SubSeq(resource, n - 2, n) = <<"i", "e", "s">>
        THEN SubSeq(resource, 1, n - 3) \o <<"y">>
        ELSE IF n > 2 /\ SubSeq(resource, n - 1, n) = <<"e", "s">>
        THEN LET base == SubSeq(resource, 1, n - 2)
             IN  IF base[Len(base)] \in {"s", "x", "z"} THEN base
                 ELSE IF Len(base) > 1
                 THEN IF SubSeq(base, Len(base) - 1, Len(base)) \in {<<"c", "h">>, <<"s", "h">>}
                      THEN base ELSE SubSeq(resource, 1, n - 1)
                 ELSE SubSeq(resource, 1, n - 1)
        ELSE IF n > 1 /\ resource[n] = "s" THEN SubSeq(resource, 1, n - 1)
        ELSE resource

\* the capitalising loop of gvrToKind: the first lower-case letter is raised
capitalize(resource) ==
    IF \E i \in 1..Len(resource) : IsLower(resource[i])
    THEN LET first == CHOOSE i \in 1..Len(resource) :
                        IsLower(resource[i]) /\ \A j \in 1..(i - 1) : ~IsLower(resource[j])
         IN  [resource EXCEPT ![first] = ToUpper(resource[first])]
    ELSE resource

gvrToKind(g) ==
    IF g.Resource \in DOMAIN irregulars THEN irregulars[g.Resource]
    ELSE capitalize(singular(g.Resource))

sMetadata == <<"m", "e", "t", "a", "d", "a", "t", "a">>
sName     == <<"n", "a", "m", "e">>

\* the name set only where the assembled metadata has none
keepName(metadata, vals) ==
    IF sName \in DOMAIN metadata THEN metadata ELSE Put(metadata, sName, VStr(vals.Name))

\* metadata["name"] = values.Name
forceName(metadata, vals) == Put(metadata, sName, VStr(vals.Name))

\* GenerateManifest after BuildNestedMap returned nested0: the object returned
manifestOf(g, namespace, vals, nested0) ==
    LET metadata == IF sMetadata \in DOMAIN nested0 /\ nested0[sMetadata].t = "map"
                    THEN nested0[sMetadata].m ELSE EmptyMap
        named    == forceName(metadata, vals)
        spaced   == IF namespace # <<>> THEN Put(named, <<"n", "a", "m", "e", "s", "p", "a", "c", "e">>, VStr(namespace))
                    ELSE named
        nested1  == Put(nested0, sMetadata, VMap(spaced))
        object   == (<<"a", "p", "i", "V", "e", "r", "s", "i", "o", "n">> :> VStr(gvrToAPIVersion(g)))
                    @@ (<<"k", "i", "n", "d">> :> VStr(gvrToKind(g)))
    IN  [k \in DOMAIN object \cup DOMAIN nested1 |->
            IF k \in DOMAIN nested1 THEN nested1[k] ELSE object[k]]

\* the Documents GenerateManifest can return
GenerateManifest(g, namespace, vals) ==
    {manifestOf(g, namespace, vals, nested0) : nested0 \in BuildNestedMap(vals.Values)}

(***************************************************************************)
(* GetSchema.  The cluster's OpenAPI endpoint is the environment:          *)
(*   openAPI  : OpenAPIV3() returned a client                              *)
(*   pathsErr : Paths() failed                                             *)
(*   paths    : the API paths, each by what happens when the loop reaches  *)
(*              it: "nomatch" (no pattern matches the path key),           *)
(*              "schemaErr" (Schema() fails), "parseErr" (bad JSON, no     *)
(*              components, no schemas), "notFound" (findResourceSchema    *)
(*              returns nil), or the name of the definition found          *)
(***************************************************************************)
MaxPaths == 2        \* API paths the cluster serves

SchemaEnvs ==
    LET PathOutcomes == {"nomatch", "schemaErr", "parseErr", "notFound", "Workload", "Loose", "Bare", "Tuned"}
    IN  [openAPI : BOOLEAN, pathsErr : BOOLEAN,
         paths : {S \in SUBSET PathOutcomes : Cardinality(S) <= MaxPaths}]

NilSchema == [isNil |-> TRUE, err |-> TRUE, Fields |-> <<>>]

BasicSchema == [isNil |-> FALSE, err |-> FALSE, Fields |-> createBasicSchema]

\* parseOpenAPISchema on a path whose document holds the definition found
parseOpenAPISchema(impl, found, allSchemas) ==
    [isNil |-> FALSE, err |-> FALSE,
     Fields |-> extractFields(impl, allSchemas[found], <<>>, allSchemas)]

\* what GetSchema can return: the first path of the iteration that yields a
\* schema decides, and the iteration order of the paths is not fixed
GetSchema(impl, env, allSchemas) ==
    IF ~env.openAPI \/ env.pathsErr
    THEN IF impl = "part_003" THEN {BasicSchema} ELSE {NilSchema}
    ELSE LET yielding == env.paths \cap DOMAIN allSchemas
         IN  IF yielding = {} THEN {BasicSchema}
             ELSE {parseOpenAPISchema(impl, found, allSchemas) : found \in yielding}

(***************************************************************************)
(* The --from template: cleanTemplateForCreation and applySetValues.       *)
(***************************************************************************)
ServerFields == {<<"u", "i", "d">>, <<"r", "e", "s", "o", "u", "r", "c", "e", "V", "e", "r", "s", "i", "o", "n">>, <<"g", "e", "n", "e", "r", "a", "t", "i", "o", "n">>, <<"c", "r", "e", "a", "t", "i", "o", "n", "T", "i", "m", "e", "s", "t", "a", "m", "p">>,
                 <<"m", "a", "n", "a", "g", "e", "d", "F", "i", "e", "l", "d", "s">>, <<"s", "e", "l", "f", "L", "i", "n", "k">>, <<"o", "w", "n", "e", "r", "R", "e", "f", "e", "r", "e", "n", "c", "e", "s">>, <<"f", "i", "n", "a", "l", "i", "z", "e", "r", "s">>}

\* the status removed and the name set, the metadata otherwise as fetched
cleanStatusOnly(obj, newName, newNamespace) ==
    LET newObj == Del(obj, <<"s", "t", "a", "t", "u", "s">>)
        md     == newObj[sMetadata].m
    IN  Put(newObj, sMetadata,
            VMap(Put(md, sName, IF newName # <<>> THEN VStr(newName)
                                ELSE VStr(md[sName].s \o <<"-", "c", "o", "p", "y">>))))

cleanTemplateForCreation(obj, newName, newNamespace) ==
    LET newObj == Del(obj, <<"s", "t", "a", "t", "u", "s">>)
    IN  IF sMetadata \in DOMAIN newObj /\ newObj[sMetadata].t = "map"
        THEN LET md0 == newObj[sMetadata].m
                 md1 == [k \in (DOMAIN md0) \ ServerFields |-> md0[k]]
                 md2 == IF newName # <<>> THEN Put(md1, sName, VStr(newName))
                        ELSE IF sName \in DOMAIN md1 /\ md1[sName].t = "str"
                        THEN Put(md1, sName, VStr(md1[sName].s \o <<"-", "c", "o", "p", "y">>))
                        ELSE md1
                 md3 == IF newNamespace # <<>>
                        THEN Put(md2, <<"n", "a", "m", "e", "s", "p", "a", "c", "e">>, VStr(newNamespace)) ELSE md2
             IN  Put(newObj, sMetadata, VMap(md3))
        ELSE newObj

\* the loop of splitPathParts from byte i on
RECURSIVE splitPathFrom(_, _, _, _)
splitPathFrom(path, i, current, parts) ==
    IF i > Len(path)
    THEN IF current # <<>> THEN Append(parts, current) ELSE parts
    ELSE IF path[i] = "."
    THEN IF current # <<>>
         THEN splitPathFrom(path, i + 1, <<>>, Append(parts, current))
         ELSE splitPathFrom(path, i + 1, current, parts)
    ELSE splitPathFrom(path, i + 1, Append(current, path[i]), parts)

splitPathParts(path) == splitPathFrom(path, 1, <<>>, <<>>)

\* unstructured.SetNestedField from field i on: maps are created on the way, and
\* a value on the way that is no map makes it fail (ok = FALSE), obj as it was
RECURSIVE SetNestedFieldFrom(_, _, _, _)
SetNestedFieldFrom(m, fields, i, value) ==
    IF i = Len(fields) THEN [ok |-> TRUE, m |-> Put(m, fields[i], value)]
    ELSE IF fields[i] \notin DOMAIN m
    THEN LET sub == SetNestedFieldFrom(EmptyMap, fields, i + 1, value)
         IN  [ok |-> TRUE, m |-> Put(m, fields[i], VMap(sub.m))]
    ELSE IF m[fields[i]].t = "map"
    THEN LET sub == SetNestedFieldFrom(m[fields[i]].m, fields, i + 1, value)
         IN  IF sub.ok THEN [ok |-> TRUE, m |-> Put(m, fields[i], VMap(sub.m))]
             ELSE [ok |-> FALSE, m |-> m]
    ELSE [ok |-> FALSE, m |-> m]

\* one step of the loop of applySetValues; the error is dropped
applyOne(obj, path, value) == SetNestedFieldFrom(obj, splitPathParts(path), 1, value).m

\* the objects applySetValues can leave after visiting exactly the keys of done
RECURSIVE ApplyLevel(_, _, _)
ApplyLevel(obj, vals, n) ==
    IF n = 0 THEN [done \in {{}} |-> {obj}]
    ELSE LET prev == ApplyLevel(obj, vals, n - 1)
         IN  [done \in {S \in SUBSET DOMAIN vals : Cardinality(S) = n} |->
                UNION {{applyOne(o, path, vals[path]) : o \in prev[done \ {path}]}
                       : path \in done}]

\* SetNestedField slices fields[:len(fields)-1]: no field is a run-time panic
applySetValuesPanics(vals) == \E path \in DOMAIN vals : splitPathParts(path) = <<>>

applySetValues(obj, vals) == ApplyLevel(obj, vals, Cardinality(DOMAIN vals))[DOMAIN vals]

(***************************************************************************)
(* The inputs of a run of the command.                                     *)
(***************************************************************************)
MaxLines == 2        \* line prompts one promptArray may issue before the user ends it

GVRs == {[Group |-> <<"a", "p", "p", "s">>, Version |-> <<"v", "1">>, Resource |-> <<"d", "e", "p", "l", "o", "y", "m", "e", "n", "t", "s">>],
         [Group |-> <<>>, Version |-> <<"v", "1">>, Resource |-> <<"p", "o", "d", "s">>]}

NoGVR == [Group |-> <<>>, Version |-> <<>>, Resource |-> <<>>]

\* the --set flags of a run
SetValueLists ==
    { <<>>,
      <<<<"s", "p", "e", "c", ".", "r", "e", "p", "l", "i", "c", "a", "s", "=", "5">>>>,
      <<<<"a", "p", "i", "V", "e", "r", "s", "i", "o", "n", "=", "v", "2">>>>,
      <<<<"m", "e", "t", "a", "d", "a", "t", "a", "=", "x">>>>,
      <<<<" ", "m", "e", "t", "a", "d", "a", "t", "a", ".", "n", "a", "m", "e", " ", "=", " ", "5", " ">>>>,
      <<<<"s", "p", "e", "c", ".", "r", "e", "p", "l", "i", "c", "a", "s", "=", "5">>, <<"b", "a", "d">>>>,
      <<<<" ", "=", "1">>>>,
      <<<<".", "=", "1">>>>,
      <<<<"s", "p", "e", "c", ".", "p", "o", "r", "t", "s", "[", "0", "]", ".", "p", "o", "r", "t", "=", "8", "0">>>> }

Names == {<<>>, <<"w", "e", "b">>}

\* the objects GetResource can return
TemplateObjs ==
    {\* a namespaced object as the server returns it
     (<<"a", "p", "i", "V", "e", "r", "s", "i", "o", "n">> :> VStr(<<"v", "1">>)) @@ (<<"k", "i", "n", "d">> :> VStr(<<"Q", "u", "e", "u", "e">>))
     @@ (sMetadata :> VMap((sName :> VStr(<<"o", "l", "d">>))
                           @@ (<<"n", "a", "m", "e", "s", "p", "a", "c", "e">> :> VStr(<<"d", "e", "f", "a", "u", "l", "t">>))
                           @@ (<<"l", "a", "b", "e", "l", "s">> :> VMap((<<"a", "p", "p">> :> VStr(<<"x">>))))
                           @@ (<<"u", "i", "d">> :> VStr(<<"u", "1">>))
                           @@ (<<"r", "e", "s", "o", "u", "r", "c", "e", "V", "e", "r", "s", "i", "o", "n">> :> VStr(<<"9">>))
                           @@ (<<"g", "e", "n", "e", "r", "a", "t", "i", "o", "n">> :> VInt(1))
                           @@ (<<"f", "i", "n", "a", "l", "i", "z", "e", "r", "s">> :> VList(<<VStr(<<"f">>)>>))))
     @@ (sSpec :> VMap((<<"r", "e", "p", "l", "i", "c", "a", "s">> :> VInt(2))
                       @@ (<<"p", "o", "r", "t", "s">> :> VList(<<VMap((<<"p", "o", "r", "t">> :> VInt(80)))>>))))
     @@ (<<"s", "t", "a", "t", "u", "s">> :> VMap((<<"r", "e", "a", "d", "y">> :> VBool(TRUE)))),
     \* a cluster-scoped object: no namespace, no status
     (sMetadata :> VMap((sName :> VStr(<<"o", "l", "d">>)) @@ (<<"u", "i", "d">> :> VStr(<<"u", "2">>))
                        @@ (<<"c", "r", "e", "a", "t", "i", "o", "n", "T", "i", "m", "e", "s", "t", "a", "m", "p">> :> VStr(<<"t">>))))
     @@ (sSpec :> VMap((<<"i", "m", "a", "g", "e">> :> VStr(<<"x">>))))}

NoTemplate == [seeded |-> FALSE, seed |-> EmptyMap, obj |-> EmptyMap]

NoLog == [prompts |-> 0, generated |-> FALSE, printed |-> FALSE, editor |-> FALSE,
          creates |-> 0, cause |-> ""]

NoAcc == [vals |-> <<>>, asked |-> 0]

\* the CollectedValues of a direct call of GenerateManifest
GenValues ==
    LET GenKeys == {sMetadata, sMetadata \o <<".">> \o sName, <<"a", "p", "i", "V", "e", "r", "s", "i", "o", "n">>, <<"m", "e", "t", "a", "d", "a", "t", "a", ".", "l", "a", "b", "e", "l", "s", ".", "a", "p", "p">>}
    IN  [Name : Names \cup {<<"d", "b">>},
         Values : MapsOver(GenKeys, {VStr(sX), VInt(5)})]

\* a run starts at the command, at a field collection seeded by a template, or
\* at a call of GenerateManifest
CmdInit ==
    /\ cfg \in [entry : {"command"}, dryRun : BOOLEAN, output : {"", "json", "wide"},
                listTypes : BOOLEAN, hasArg : BOOLEAN, setValues : SetValueLists,
                name : Names, fromResource : {<<>>, <<"o", "l", "d">>}, namespace : {<<"d", "e", "f", "a", "u", "l", "t">>}]
           \cup
           [entry : {"collect", "generate"}, dryRun : {FALSE}, output : {""},
            listTypes : {FALSE}, hasArg : {TRUE}, setValues : SetValueLists,
            name : Names, fromResource : {<<>>}, namespace : {<<"d", "e", "f", "a", "u", "l", "t">>}]
    /\ cfg.entry = "generate" => cfg.setValues = <<>> /\ cfg.name = <<>>
    /\ pc = IF cfg.entry = "command" THEN "run"
            ELSE IF cfg.entry = "collect" THEN "getspec" ELSE "generate"
    /\ gvr \in IF cfg.entry = "generate" THEN GVRs ELSE {NoGVR}
    /\ template = NoTemplate
    /\ schema = NilSchema
    /\ values \in IF cfg.entry = "generate" THEN GenValues
                  ELSE {[Name |-> <<>>, Values |-> EmptyMap]}
    /\ flagValues = EmptyMap
    /\ queue = <<>>
    /\ acc = NoAcc
    /\ manifest = EmptyMap
    /\ log = NoLog

(***************************************************************************)
(* One run of the command, or one field collection seeded by a template    *)
(* (GetResourceSpec, CollectFieldValuesWithTemplate, GenerateManifest).    *)
(***************************************************************************)
NoValues == [Name |-> <<>>, Values |-> EmptyMap]       \* the nil *CollectedValues

Fail(cause) == /\ pc' = "error"
               /\ log' = [log EXCEPT !.cause = cause]

\* dryRun as the flag alone, -o not looked at
dryRunFlagOnly(dry, out) == dry

\* `if output != "" { dryRun = true }`
dryRunAfterOutput(dry, out) == dry \/ out # ""

runCreateResource ==
    /\ pc = "run"
    /\ cfg' = [cfg EXCEPT !.dryRun = dryRunAfterOutput(cfg.dryRun, cfg.output)]
    /\ IF cfg.listTypes THEN pc' = "list"
       ELSE IF ~cfg.hasArg THEN pc' = "error"
       ELSE pc' = "client"
    /\ log' = IF ~cfg.listTypes /\ ~cfg.hasArg THEN [log EXCEPT !.cause = "usage"] ELSE log
    /\ UNCHANGED <<gvr, template, schema, values, flagValues, queue, acc, manifest>>

listResourceTypes ==
    /\ pc = "list"
    /\ \E ok \in BOOLEAN :
         IF ok THEN pc' = "done" /\ log' = log ELSE Fail("discover")
    /\ UNCHANGED <<cfg, gvr, template, schema, values, flagValues, queue, acc, manifest>>

NewK8sClient ==
    /\ pc = "client"
    /\ \E ok \in BOOLEAN :
         IF ok THEN pc' = "resolve" /\ log' = log ELSE Fail("client")
    /\ UNCHANGED <<cfg, gvr, template, schema, values, flagValues, queue, acc, manifest>>

ResolveResourceType ==
    /\ pc = "resolve"
    /\ \/ /\ Fail("resolve")
          /\ gvr' = gvr
       \/ /\ gvr' \in GVRs
          /\ pc' = IF cfg.fromResource # <<>> THEN "template" ELSE "schema"
          /\ log' = log
    /\ UNCHANGED <<cfg, template, schema, values, flagValues, queue, acc, manifest>>

\* createResource drops the error of GetResourceSchema and goes on with the schema
GetResourceSchema ==
    /\ pc = "schema"
    /\ \E impl \in Impls, env \in SchemaEnvs :
         schema' \in GetSchema(impl, env, TypeGraph)
    /\ pc' = "collect"
    /\ UNCHANGED <<cfg, gvr, template, values, flagValues, queue, acc, manifest, log>>

GetResourceSpec ==
    /\ pc = "getspec"
    /\ \/ /\ Fail("get")
          /\ UNCHANGED <<gvr, template>>
       \/ /\ gvr' \in GVRs
          /\ \E obj \in TemplateObjs :
               \E result \in (IF sSpec \in DOMAIN obj /\ obj[sSpec].t = "map"
                              THEN ResultsOf(flattenMap(obj[sSpec].m, sSpec, PrefixLoc(sSpec)))
                              ELSE {EmptyMap}) :
                 template' = [seeded |-> TRUE, seed |-> result, obj |-> obj]
          /\ pc' = "collect"
          /\ log' = log
    /\ UNCHANGED <<cfg, schema, values, flagValues, queue, acc, manifest>>

\* the two copy loops in the other order: the seed overwrites the flag values
flagsThenSeed(seed, flags) ==
    [k \in DOMAIN seed \cup DOMAIN flags |-> IF k \in DOMAIN seed THEN seed[k] ELSE flags[k]]

\* values.Values after the seed and then the flag values were copied in
seedThenFlags(seed, flags) ==
    [k \in DOMAIN seed \cup DOMAIN flags |-> IF k \in DOMAIN flags THEN flags[k] ELSE seed[k]]

\* CollectFieldValuesWithTemplate on a flattened seed: the template values
\* are the base and the --set values override them
Override ==
    /\ rpc = "flattened"
    /\ assignments # <<>>
    /\ LET parsed == ParseSetValues(assignments)
       IN  IF parsed.err
           THEN /\ rpc' = "error"
                /\ UNCHANGED <<vm, todo>>
           ELSE /\ vm' = seedThenFlags(vm, parsed.m)
                /\ todo' = DOMAIN vm'
                /\ rpc' = "merged"
    /\ UNCHANGED <<assignments, doc, prefix, emitted, nested, aliased>>

sMetadataName == sMetadata \o <<".">> \o sName

\* CollectFieldValuesWithTemplate from `values.Values["metadata.name"] = values.Name`
\* to the start of the walk over the fields
startWalk(vals, flags) ==
    /\ values' = [vals EXCEPT !.Values = Put(vals.Values, sMetadataName, VStr(vals.Name))]
    /\ IF template.seeded
       THEN /\ queue' = templateOrder(values'.Values, DOMAIN flags)
            /\ pc' = "fields"
       ELSE IF schema.isNil
       THEN /\ queue' = queue
            /\ pc' = "panic"              \* schema.Fields of a nil schema
       ELSE /\ queue' = promptOrder(schema.Fields, 1, DOMAIN flags)
            /\ pc' = "fields"

\* CollectFieldValuesWithTemplate up to the decision about the name
CollectFieldValues ==
    /\ pc = "collect"
    /\ LET parsed == ParseSetValues(cfg.setValues)
           base   == seedThenFlags(template.seed, parsed.m)
       IN  IF parsed.err
           THEN /\ Fail("set")
                /\ UNCHANGED <<values, flagValues, queue>>
           ELSE /\ flagValues' = parsed.m
                /\ log' = log
                /\ IF cfg.name = <<>> /\ sMetadataName \notin DOMAIN base
                   THEN /\ values' = [Name |-> <<>>, Values |-> base]
                        /\ pc' = "name"
                        /\ queue' = queue
                   ELSE startWalk([Name |-> IF cfg.name # <<>> THEN cfg.name
                                            ELSE SprintV(base[sMetadataName]),
                                   Values |-> base], parsed.m)
    /\ UNCHANGED <<cfg, gvr, template, schema, acc, manifest>>

NameField == [NoField EXCEPT !.Path = sMetadataName, !.Name = sName, !.Type = "string",
                             !.Required = TRUE]

\* the prompt for the name: every error ends the collection
PromptName ==
    /\ pc = "name"
    /\ \E ans \in Answers("string", TRUE, <<>>) :
         LET r == promptForField(NameField, Nil, ans)
         IN  IF r.err # "none"
             THEN /\ pc' = "error"
                  /\ log' = [log EXCEPT !.prompts = @ + 1,
                                        !.cause = IF r.err = "interrupt" THEN "interrupted"
                                                  ELSE "prompt"]
                  /\ values' = NoValues
                  /\ queue' = queue
             ELSE /\ log' = [log EXCEPT !.prompts = @ + 1]
                  /\ startWalk([values EXCEPT !.Name = r.val.s], flagValues)
    /\ UNCHANGED <<cfg, gvr, template, schema, flagValues, acc, manifest>>

\* an interrupt handled like any other prompt error
neverInterrupt(err) == FALSE

\* err == promptui.ErrInterrupt
isInterrupt(err) == err = "interrupt"

\* one turn of the loop of promptForFields / promptForTemplateFields on a field
\* that is no array
PromptField ==
    /\ pc = "fields"
    /\ queue # <<>>
    /\ Head(queue).field.Type # "array"
    /\ LET field == Head(queue).field
           templateDefault == Head(queue).templateDefault
       IN  \E ans \in Answers(field.Type, field.Required,
                              DefaultStr(FieldDefault(field, templateDefault))) :
             LET r == promptForField(field, templateDefault, ans)
             IN  /\ log' = [log EXCEPT !.prompts = @ + 1,
                                       !.cause = IF r.err = "interrupt" THEN "interrupted" ELSE @]
                 /\ IF isInterrupt(r.err)
                    THEN /\ pc' = "error"
                         /\ values' = NoValues
                         /\ queue' = queue
                    ELSE /\ pc' = pc
                         /\ queue' = Tail(queue)
                         /\ values' = IF r.err = "none" /\ r.val # VStr(<<>>)
                                      THEN [values EXCEPT !.Values = Put(@, field.Path, r.val)]
                                      ELSE values
    /\ UNCHANGED <<cfg, gvr, template, schema, flagValues, acc, manifest>>

\* one line prompt of promptArray for the array field at the head of the walk
PromptArrayLine ==
    /\ pc = "fields"
    /\ queue # <<>>
    /\ Head(queue).field.Type = "array"
    /\ LET field == Head(queue).field
           items == field.Items
       IN  \E ans \in {Interrupt, OtherErr} \cup {Text(s) : s \in LineTexts} :
             /\ (ans.kind = "text" /\ ans.text # <<>>) => acc.asked < MaxLines
             /\ log' = [log EXCEPT !.prompts = @ + 1,
                                   !.cause = IF ans.kind = "interrupt" THEN "interrupted" ELSE @]
             /\ IF isInterrupt(ans.kind)
                THEN /\ pc' = "error"
                     /\ values' = NoValues
                     /\ UNCHANGED <<queue, acc>>
                ELSE IF ans.kind = "error" \/ ans.text = <<>>
                THEN /\ pc' = pc
                     /\ values' = [values EXCEPT !.Values = Put(@, field.Path, VList(acc.vals))]
                     /\ queue' = Tail(queue)
                     /\ acc' = NoAcc
                ELSE /\ pc' = pc
                     /\ UNCHANGED <<values, queue>>
                     /\ IF items # <<>> /\ items[1].Type = "integer"
                        THEN IF ParseInt(ans.text).ok
                             THEN acc' = [vals |-> Append(acc.vals, VInt(ParseInt(ans.text).v)),
                                          asked |-> acc.asked + 1]
                             ELSE acc' = [acc EXCEPT !.asked = @ + 1]
                        ELSE acc' = [vals |-> Append(acc.vals, VStr(ans.text)),
                                     asked |-> acc.asked + 1]
    /\ UNCHANGED <<cfg, gvr, template, schema, flagValues, manifest>>

\* the walk is over: CollectFieldValuesWithTemplate returns values
CollectReturn ==
    /\ pc = "fields"
    /\ queue = <<>>
    /\ pc' = "generate"
    /\ UNCHANGED <<cfg, gvr, template, schema, values, flagValues, queue, acc, manifest, log>>

\* generator.GenerateManifest(gvr, namespace, values) and what follows it
GenerateManifestStep ==
    /\ pc = "generate"
    /\ IF BuildNestedMapPanics(values.Values)
       THEN /\ pc' = "panic"
            /\ UNCHANGED <<manifest, log>>
       ELSE /\ manifest' \in GenerateManifest(gvr, cfg.namespace, values)
            /\ log' = [log EXCEPT !.generated = TRUE]
            /\ pc' = IF cfg.entry # "command" THEN "done"
                     ELSE IF cfg.dryRun THEN "print" ELSE "create"
    /\ UNCHANGED <<cfg, gvr, template, schema, values, flagValues, queue, acc>>

PrintManifest ==
    /\ pc = "print"
    /\ IF cfg.output \in {"json", "yaml", ""}
       THEN /\ log' = [log EXCEPT !.printed = TRUE]
            /\ pc' = "done"
       ELSE Fail("format")
    /\ UNCHANGED <<cfg, gvr, template, schema, values, flagValues, queue, acc, manifest>>

\* k8sClient.CreateResource: the create request is sent, and the server answers
CreateResource ==
    /\ pc \in {"create", "createEdited"}
    /\ \E ok \in BOOLEAN :
         /\ pc' = IF ok THEN "done" ELSE "error"
         /\ log' = [log EXCEPT !.creates = @ + 1, !.cause = IF ok THEN @ ELSE "create"]
    /\ UNCHANGED <<cfg, gvr, template, schema, values, flagValues, queue, acc, manifest>>

\* createFromTemplate: k8sClient.GetResource
GetResource ==
    /\ pc = "template"
    /\ \/ /\ Fail("get")
          /\ template' = template
       \/ /\ \E obj \in TemplateObjs :
               template' = [seeded |-> FALSE, seed |-> EmptyMap, obj |-> obj]
          /\ pc' = "prepare"
          /\ log' = log
    /\ UNCHANGED <<cfg, gvr, schema, values, flagValues, queue, acc, manifest>>

\* createFromTemplate from cleanTemplateForCreation to the dry-run print
PrepareTemplate ==
    /\ pc = "prepare"
    /\ LET cleanedObj == cleanTemplateForCreation(template.obj, cfg.name, cfg.namespace)
           parsed     == ParseSetValues(cfg.setValues)
       IN  IF Len(cfg.setValues) > 0 /\ parsed.err
           THEN /\ Fail("set")
                /\ UNCHANGED <<flagValues, manifest>>
           ELSE IF Len(cfg.setValues) > 0 /\ applySetValuesPanics(parsed.m)
           THEN /\ pc' = "panic"
                /\ UNCHANGED <<flagValues, manifest, log>>
           ELSE /\ flagValues' = parsed.m
                /\ manifest' \in applySetValues(cleanedObj, parsed.m)
                /\ IF cfg.dryRun
                   THEN /\ log' = [log EXCEPT !.printed = TRUE]
                        /\ pc' = "done"
                   ELSE /\ log' = log
                        /\ pc' = "tmpfile"
    /\ UNCHANGED <<cfg, gvr, template, schema, values, queue, acc>>

\* os.CreateTemp and the write of the YAML
WriteTempFile ==
    /\ pc = "tmpfile"
    /\ \E ok \in BOOLEAN :
         IF ok THEN pc' = "editor" /\ log' = log ELSE Fail("tmpfile")
    /\ UNCHANGED <<cfg, gvr, template, schema, values, flagValues, queue, acc, manifest>>

\* exec.Command(editor, tmpPath).Run()
RunEditor ==
    /\ pc = "editor"
    /\ \E ok \in BOOLEAN :
         /\ pc' = IF ok THEN "readback" ELSE "error"
         /\ log' = [log EXCEPT !.editor = TRUE, !.cause = IF ok THEN @ ELSE "editor"]
    /\ UNCHANGED <<cfg, gvr, template, schema, values, flagValues, queue, acc, manifest>>

\* what the user can leave in the file: the Document as it was, or renamed
Edits(obj) ==
    {obj} \cup (IF sMetadata \in DOMAIN obj /\ obj[sMetadata].t = "map"
                THEN {Put(obj, sMetadata, VMap(Put(obj[sMetadata].m, sName, VStr(<<"e">>))))}
                ELSE {})

\* os.ReadFile and yaml.Unmarshal of the edited file
ReadEdited ==
    /\ pc = "readback"
    /\ \/ /\ Fail("read")
          /\ manifest' = manifest
       \/ /\ manifest' \in Edits(manifest)
          /\ pc' = "createEdited"
          /\ log' = log
    /\ UNCHANGED <<cfg, gvr, template, schema, values, flagValues, queue, acc>>


(***************************************************************************)
(* The specifications: each runs one part of the program, the variables    *)
(* of the other parts standing still.                                      *)
(***************************************************************************)
RTIdle ==
    /\ rpc = "idle"
    /\ assignments = <<>>
    /\ doc = EmptyMap
    /\ prefix = <<>>
    /\ emitted = {}
    /\ vm = EmptyMap
    /\ todo = {}
    /\ nested = EmptyMap
    /\ aliased = {}

CmdIdle ==
    /\ pc = "idle"
    /\ cfg = [entry |-> "idle", dryRun |-> FALSE, output |-> "", listTypes |-> FALSE,
              hasArg |-> FALSE, setValues |-> <<>>, name |-> <<>>, fromResource |-> <<>>,
              namespace |-> <<>>]
    /\ gvr = NoGVR
    /\ template = NoTemplate
    /\ schema = NilSchema
    /\ values = NoValues
    /\ flagValues = EmptyMap
    /\ queue = <<>>
    /\ acc = NoAcc
    /\ manifest = EmptyMap
    /\ log = NoLog

XIdle ==
    /\ xpc = "idle"
    /\ xdef = [def |-> Obj(<<>>, {}), pre |-> <<>>]
    /\ ximpl = "part_003"
    /\ xout = <<>>

\* a run of the command
Init == CmdInit /\ RTIdle /\ XIdle
Next ==
    \/ runCreateResource /\ UNCHANGED <<rtVars, exVars>>
    \/ listResourceTypes /\ UNCHANGED <<rtVars, exVars>>
    \/ NewK8sClient /\ UNCHANGED <<rtVars, exVars>>
    \/ ResolveResourceType /\ UNCHANGED <<rtVars, exVars>>
    \/ GetResourceSchema /\ UNCHANGED <<rtVars, exVars>>
    \/ GetResourceSpec /\ UNCHANGED <<rtVars, exVars>>
    \/ CollectFieldValues /\ UNCHANGED <<rtVars, exVars>>
    \/ PromptName /\ UNCHANGED <<rtVars, exVars>>
    \/ PromptField /\ UNCHANGED <<rtVars, exVars>>
    \/ PromptArrayLine /\ UNCHANGED <<rtVars, exVars>>
    \/ CollectReturn /\ UNCHANGED <<rtVars, exVars>>
    \/ GenerateManifestStep /\ UNCHANGED <<rtVars, exVars>>
    \/ PrintManifest /\ UNCHANGED <<rtVars, exVars>>
    \/ CreateResource /\ UNCHANGED <<rtVars, exVars>>
    \/ GetResource /\ UNCHANGED <<rtVars, exVars>>
    \/ PrepareTemplate /\ UNCHANGED <<rtVars, exVars>>
    \/ WriteTempFile /\ UNCHANGED <<rtVars, exVars>>
    \/ RunEditor /\ UNCHANGED <<rtVars, exVars>>
    \/ ReadEdited /\ UNCHANGED <<rtVars, exVars>>
Spec == Init /\ [][Next]_vars

\* a run of the document engine
EngineInit == RTInit /\ CmdIdle /\ XIdle
EngineNext ==
    \/ Flatten /\ UNCHANGED <<cmdVars, exVars>>
    \/ ParseSet /\ UNCHANGED <<cmdVars, exVars>>
    \/ Override /\ UNCHANGED <<cmdVars, exVars>>
    \/ BuildEntry /\ UNCHANGED <<cmdVars, exVars>>
    \/ BuildReturn /\ UNCHANGED <<cmdVars, exVars>>
EngineSpec == EngineInit /\ [][EngineNext]_vars

\* a call of extractFields
ExtractInit == XInit /\ RTIdle /\ CmdIdle
ExtractNext ==
    \/ ExtractFields /\ UNCHANGED <<rtVars, cmdVars>>
    \/ FindResourceSchema /\ UNCHANGED <<rtVars, cmdVars>>
ExtractSpec == ExtractInit /\ [][ExtractNext]_vars

(***************************************************************************)
(* The claims about the document engine (EngineSpec).                      *)
(***************************************************************************)
\* the keys of d, at every depth, hold no '.' and no '[': no key reads as a path
RECURSIVE PlainKeys(_)
PlainKeys(v) ==
    IF v.t = "map"
    THEN \A k \in DOMAIN v.m : ~Contains(k, ".") /\ ~Contains(k, "[") /\ PlainKeys(v.m[k])
    ELSE IF v.t = "list" THEN \A i \in 1..Len(v.l) : PlainKeys(v.l[i])
    ELSE TRUE

\* C1: round-trip law.  For every Document d without a shape clash (here: no key
\* that reads as a path), BuildNestedMap applied to the ValueMap flattenMap
\* produces from d with an empty prefix returns d, in every order of applying
\* the entries.
C1RoundTrip ==
    (rpc = "assembled" /\ assignments = <<>> /\ prefix = <<>> /\ PlainKeys(VMap(doc)))
        => nested = doc

\* C2: path round-trip.  Every key flattenMap emits, tokenized by parsePath and
\* parsePathPart, gives exactly the keys and list positions of the location the
\* entry was emitted for.
C2PathRoundTrip ==
    rpc # "start" => \A e \in emitted : Tokens(e.path) = e.loc

(***************************************************************************)
(* The claims about extractFields (ExtractSpec).                           *)
(***************************************************************************)
\* the fields come required first, and by name within the required and within
\* the optional ones, here and in the Properties and Items below
RECURSIVE OrderedTree(_)
OrderedTree(fields) ==
    /\ \A i \in 1..(Len(fields) - 1) :
         \/ fields[i].Required /\ ~fields[i + 1].Required
         \/ /\ fields[i].Required = fields[i + 1].Required
            /\ StrLess(fields[i].Name, fields[i + 1].Name)
    /\ \A i \in 1..Len(fields) :
         /\ OrderedTree(fields[i].Properties)
         /\ \A j \in 1..Len(fields[i].Items) : OrderedTree(fields[i].Items[j].Properties)

\* C10: prompting order.  At every nesting level extractFields returns the
\* properties listed in `required` first, ascending by name, then all the others,
\* ascending by name.
C10PromptingOrder ==
    xpc = "done" => OrderedTree(xout)

(***************************************************************************)
(* The claims about a run of the command (Spec).                           *)
(***************************************************************************)
sApiVersion == <<"a", "p", "i", "V", "e", "r", "s", "i", "o", "n">>
sKind == <<"k", "i", "n", "d">>
sSpecReplicas == <<"s", "p", "e", "c", ".", "r", "e", "p", "l", "i", "c", "a", "s">>

\* C3: override wins over seed.  When CollectFieldValuesWithTemplate has a value
\* map, every path present in the template seed and in the --set assignments
\* holds the assignment's coerced value, whatever was answered at the prompts.
C3OverrideWins ==
    (template.seeded /\ pc \in {"fields", "generate", "done", "panic"}) =>
        \A path \in DOMAIN template.seed \cap DOMAIN ParseSetValues(cfg.setValues).m :
            /\ path \in DOMAIN values.Values
            /\ values.Values[path] = ParseSetValues(cfg.setValues).m[path]

\* a collection seeded with spec.replicas = 2 and run with --set spec.replicas=5
\* returned, after prompts, with spec.replicas = 5
C3Witness ==
    /\ template.seeded
    /\ pc = "done"
    /\ log.prompts > 0
    /\ sSpecReplicas \in DOMAIN template.seed
    /\ template.seed[sSpecReplicas] = VInt(2)
    /\ cfg.setValues = <<sSpecReplicas \o <<"=", "5">>>>
    /\ values.Values[sSpecReplicas] = VInt(5)

\* C4: the computed envelope wins.  In every Document GenerateManifest returned,
\* apiVersion and kind are the values computed from the resolved type
\* (gvrToAPIVersion, gvrToKind), also when the ValueMap has entries at these paths.
C4EnvelopeWins ==
    log.generated =>
        /\ manifest[sApiVersion] = VStr(gvrToAPIVersion(gvr))
        /\ manifest[sKind] = VStr(gvrToKind(gvr))

\* C5: the name is authoritative.  In every Document GenerateManifest returned,
\* metadata is a map and metadata.name is CollectedValues.Name, whatever the
\* ValueMap holds at metadata or metadata.name.
C5NameAuthoritative ==
    log.generated =>
        /\ sMetadata \in DOMAIN manifest
        /\ manifest[sMetadata].t = "map"
        /\ sName \in DOMAIN manifest[sMetadata].m
        /\ manifest[sMetadata].m[sName] = VStr(values.Name)

\* GenerateManifest returned for a ValueMap holding a scalar at metadata and, at
\* metadata.name, a value that is not the Name
C5Witness ==
    /\ log.generated
    /\ sMetadata \in DOMAIN values.Values
    /\ sMetadataName \in DOMAIN values.Values
    /\ values.Values[sMetadataName] # VStr(values.Name)

\* C6: dry-run never creates.  On a run with --dry-run or a non-empty -o, no create
\* request is sent and no editor is started, on the schema path and on the --from
\* path; a run that resolved its resource and ended well printed the manifest.
C6DryRunNeverCreates ==
    (cfg.entry = "command" /\ (cfg.dryRun \/ cfg.output # "")) =>
        /\ log.creates = 0
        /\ ~log.editor
        /\ pc \notin {"create", "tmpfile", "editor", "readback", "createEdited"}
        /\ (pc = "done" /\ ~cfg.listTypes) => log.printed

\* a --from run with -o json ended after printing, nothing created
C6Witness ==
    /\ cfg.entry = "command"
    /\ cfg.output = "json"
    /\ cfg.fromResource # <<>>
    /\ pc = "done"
    /\ log.printed
    /\ log.creates = 0

\* a --set entry without '=' or with an empty key after trimming
Malformed(setValues) ==
    \E i \in 1..Len(setValues) :
        \/ ~Contains(setValues[i], "=")
        \/ TrimSpace(SubSeq(setValues[i], 1, IndexOf(setValues[i], "=") - 1)) = <<>>

\* C7: malformed assignments abort before prompting.  With a malformed --set entry
\* ParseSetValues returns an error and no map, no prompt is issued, no
\* CollectedValues is returned, no manifest is generated or printed, no editor is
\* started and no create request is sent.
C7MalformedAborts ==
    Malformed(cfg.setValues) =>
        /\ ParseSetValues(cfg.setValues) = [err |-> TRUE, m |-> EmptyMap]
        /\ log.prompts = 0
        /\ values = NoValues
        /\ flagValues = EmptyMap
        /\ ~log.generated /\ ~log.printed /\ ~log.editor
        /\ log.creates = 0
        /\ pc \notin {"name", "fields", "generate", "print", "create", "tmpfile",
                      "editor", "readback", "createEdited"}

\* the collection of a run whose second --set entry is malformed ended with the
\* error of ParseSetValues
C7Witness ==
    /\ cfg.entry = "command"
    /\ cfg.fromResource = <<>>
    /\ Len(cfg.setValues) = 2
    /\ Malformed(cfg.setValues)
    /\ pc = "error"
    /\ log.cause = "set"

\* C8: interrupt aborts everything.  After an interrupt at a prompt the
\* collection has returned an error and no CollectedValues, and no Document is
\* generated, printed or submitted.
C8InterruptAborts ==
    log.cause = "interrupted" =>
        /\ pc = "error"
        /\ values = NoValues
        /\ manifest = EmptyMap
        /\ ~log.generated /\ ~log.printed /\ ~log.editor
        /\ log.creates = 0

\* the user interrupted a line prompt of an array field after entering a line
C8Witness ==
    /\ log.cause = "interrupted"
    /\ queue # <<>>
    /\ Head(queue).field.Type = "array"
    /\ acc.asked > 0
    /\ log.prompts > 2

\* C9: schema lookup never fails.  GetResourceSchema returns neither an error nor
\* a nil schema, so createResource never reaches the field collection with a nil
\* schema.
C9SchemaNeverNil ==
    (cfg.entry = "command" /\ pc = "collect") => (~schema.isNil /\ ~schema.err)

(***************************************************************************)
(* Value coercion and the assembly of --set assignments.                   *)
(***************************************************************************)
sK == <<"k">>

\* the run coerces one text, assigned to the path k
CoerceRun ==
    /\ rpc \in {"parsed", "assembling", "assembled"}
    /\ Len(assignments) = 1
    /\ HasPrefix(assignments[1], <<"k", "=">>)

CoerceText == SubSeq(assignments[1], 3, Len(assignments[1]))

\* C11: value coercion is a strict priority chain.  Exactly "true" and "false"
\* become booleans; otherwise a text that parses as a base-10 64-bit integer
\* becomes that integer; otherwise a text that parses as a float and holds a
\* '.' becomes a float; everything else stays the original string.  So "42" is
\* the integer 42, "3.14" a float, "latest" a string, and "10", "3", an
\* exponent form and an integer beyond 64 bits are never floats.
C11PriorityChain ==
    CoerceRun =>
        LET t == CoerceText
            v == vm[sK]
            isBool  == t \in {<<"t", "r", "u", "e">>, <<"f", "a", "l", "s", "e">>}
            isInt   == ~isBool /\ ParseInt(t).ok
            isFloat == ~isBool /\ ~isInt /\ ParseFloatOk(t) /\ Contains(t, ".")
        IN  /\ isBool  => v = VBool(t = <<"t", "r", "u", "e">>)
            /\ isInt   => v = VInt(ParseInt(t).v)
            /\ isFloat => v = VFloat(t)
            /\ (~isBool /\ ~isInt /\ ~isFloat) => v = VStr(t)
            /\ t = <<"4", "2">> => v = VInt(42)
            /\ t = <<"3", ".", "1", "4">> => v = VFloat(<<"3", ".", "1", "4">>)
            /\ t = <<"l", "a", "t", "e", "s", "t">> => v = VStr(<<"l", "a", "t", "e", "s", "t">>)
            /\ t \in {<<"1", "0">>, <<"3">>, <<"1", "e", "5">>, <<"9", "9", "9", "9", "9", "9", "9", "9", "9", "9", "9", "9", "9", "9", "9", "9", "9", "9", "9", "9">>} => v.t # "float"
            /\ ~Contains(t, ".") => v.t # "float"

\* an exponent form without a '.' was coerced and kept as a string
C11Witness ==
    /\ CoerceRun
    /\ CoerceText = <<"1", "e", "5">>
    /\ vm[sK] = VStr(<<"1", "e", "5">>)

\* the assignments of scenario A, in two orders of the command line
ScenarioA ==
    assignments \in
        {<<<<"s", "p", "e", "c", ".", "r", "e", "p", "l", "i", "c", "a", "s", "=", "3">>, <<"s", "p", "e", "c", ".", "p", "o", "r", "t", "s", "[", "0", "]", ".", "p", "o", "r", "t", "=", "8", "0">>, <<"s", "p", "e", "c", ".", "p", "o", "r", "t", "s", "[", "0", "]", ".", "t", "a", "r", "g", "e", "t", "P", "o", "r", "t", "=", "8", "0", "8", "0">>>>,
         <<<<"s", "p", "e", "c", ".", "p", "o", "r", "t", "s", "[", "0", "]", ".", "t", "a", "r", "g", "e", "t", "P", "o", "r", "t", "=", "8", "0", "8", "0">>, <<"s", "p", "e", "c", ".", "r", "e", "p", "l", "i", "c", "a", "s", "=", "3">>, <<"s", "p", "e", "c", ".", "p", "o", "r", "t", "s", "[", "0", "]", ".", "p", "o", "r", "t", "=", "8", "0">>>>}

\* {spec: {replicas: 3, ports: [{port: 80, targetPort: 8080}]}}
DocA ==
    Put(EmptyMap, sSpec,
        VMap(Put(Put(EmptyMap, sReplicas, VInt(3)),
                 sPorts, VList(<<VMap(Put(Put(EmptyMap, sPort, VInt(80)),
                                          <<"t", "a", "r", "g", "e", "t", "P", "o", "r", "t">>, VInt(8080)))>>))))

\* C12: scenario A.  The assignments spec.replicas=3, spec.ports[0].port=80 and
\* spec.ports[0].targetPort=8080, parsed by ParseSetValues and assembled by
\* BuildNestedMap in any order of applying them, neither fail nor panic and
\* give the Document whose spec.replicas is the integer 3 and whose spec.ports
\* is a list of exactly one element, the map {port: 80, targetPort: 8080}.
C12ScenarioA ==
    ScenarioA =>
        /\ rpc \notin {"error", "panic"}
        /\ rpc = "assembled" => nested = DocA

\* scenario A was parsed and assembled to the end
C12Witness ==
    /\ ScenarioA
    /\ rpc = "assembled"
    /\ nested[sSpec].m[sReplicas] = VInt(3)
    /\ Len(nested[sSpec].m[sPorts].l) = 1

(***************************************************************************)
(* The flattener's emission law.                                           *)
(***************************************************************************)
\* the run flattened a Document
FlattenRun == assignments = <<>> /\ rpc \notin {"start", "idle"}

\* a location written as a path: every key after a '.', a list position as [i]
RECURSIVE Render(_)
Render(loc) ==
    IF loc = <<>> THEN <<>>
    ELSE <<".">> \o loc[1].key
         \o (IF loc[1].index >= 0 THEN <<"[">> \o Itoa(loc[1].index) \o <<"]">> ELSE <<>>)
         \o Render(Tail(loc))

\* the locations the law names in the map m standing at loc: every value that
\* is not a map, and every element of a list that is not a map
RECURSIVE LocsOf(_, _)
LocsOf(m, loc) ==
    UNION {LET l == Append(loc, Seg(k, -1))
               v == m[k]
           IN  IF v.t = "map" THEN LocsOf(v.m, l)
               ELSE IF v.t = "list"
               THEN {l} \cup UNION {IF v.l[i].t = "map"
                                    THEN LocsOf(v.l[i].m, AtIndex(l, i - 1))
                                    ELSE {AtIndex(l, i - 1)} : i \in 1..Len(v.l)}
               ELSE {l} : k \in DOMAIN m}

\* the value the map m holds at the location loc, read from its position i on
RECURSIVE ValAt(_, _, _)
ValAt(m, loc, i) ==
    LET v == m[loc[i].key]
        w == IF loc[i].index >= 0 THEN v.l[loc[i].index + 1] ELSE v
    IN  IF i = Len(loc) THEN w ELSE ValAt(w.m, loc, i + 1)

Written == {<<e.path, e.val>> : e \in emitted}

\* spec.replicas -> 3, spec.ports -> [{port: 80}], spec.ports[0].port -> 80
EntriesB ==
    {<<<<"s", "p", "e", "c", ".", "r", "e", "p", "l", "i", "c", "a", "s">>, VInt(3)>>,
     <<<<"s", "p", "e", "c", ".", "p", "o", "r", "t", "s">>, SpecB[sPorts]>>,
     <<<<"s", "p", "e", "c", ".", "p", "o", "r", "t", "s", "[", "0", "]", ".", "p", "o", "r", "t">>, VInt(80)>>}

C14ClosedFormats ==
    (cfg.entry = "command" /\ ~cfg.listTypes /\ cfg.output \notin {"", "yaml", "json"}) =>
        /\ ~log.printed
        /\ pc # "done"

(***************************************************************************)
(* The path grammar on bracketed paths.                                    *)
(***************************************************************************)
\* the run parsed well-formed assignments
ParsedRun ==
    /\ assignments # <<>>
    /\ rpc \notin {"parse", "idle"}
    /\ \A i \in 1..Len(assignments) : splitAssignment(assignments[i]).ok

\* the path of the i-th assignment
PathOf(i) == splitAssignment(assignments[i]).key

\* a '[' with no ']' after it
Unterminated(path) ==
    \E i \in 1..Len(path) :
        path[i] = "[" /\ \A j \in (i + 1)..Len(path) : path[j] # "]"

\* C15: a path with an unterminated '[' (spec.ports[0) is rejected as malformed
\* input: parsing fails and no Document is assembled from it; it is never
\* taken as an index or as a key.  Every other path parses without failure.
C15UnterminatedRejected ==
    ParsedRun =>
        IF \E i \in 1..Len(assignments) : Unterminated(PathOf(i))
        THEN rpc = "error" /\ nested = EmptyMap
        ELSE rpc \notin {"error", "panic"}

(***************************************************************************)
(* Prompt failures.                                                        *)
(***************************************************************************)
\* C16: field-local failures never abort.  A prompt failure that is no
\* interrupt, on any prompted field and on the resource name prompt as well,
\* does not end the collection: the run never stops with such a failure as its
\* cause, and collection goes on to return the CollectedValues.
C16FieldFailuresLocal ==
    pc = "error" => log.cause # "prompt"

(***************************************************************************)
(* The --from template.                                                    *)
(***************************************************************************)
\* a --from run without --set stands right after cleanTemplateForCreation: the
\* manifest is the cleaned copy, not yet edited
Cleaned ==
    /\ cfg.entry = "command"
    /\ cfg.fromResource # <<>>
    /\ cfg.setValues = <<>>
    /\ ~log.editor
    /\ pc \in {"tmpfile", "editor", "done"}
    /\ template.obj # EmptyMap

Dropped ==
    {<<"u", "i", "d">>, <<"r", "e", "s", "o", "u", "r", "c", "e", "V", "e", "r", "s", "i", "o", "n">>, <<"g", "e", "n", "e", "r", "a", "t", "i", "o", "n">>, <<"c", "r", "e", "a", "t", "i", "o", "n", "T", "i", "m", "e", "s", "t", "a", "m", "p">>,
     <<"m", "a", "n", "a", "g", "e", "d", "F", "i", "e", "l", "d", "s">>, <<"s", "e", "l", "f", "L", "i", "n", "k">>, <<"o", "w", "n", "e", "r", "R", "e", "f", "e", "r", "e", "n", "c", "e", "s">>, <<"f", "i", "n", "a", "l", "i", "z", "e", "r", "s">>}

\* C17: template cleaning.  cleanTemplateForCreation returns a copy of the
\* fetched object in which status and metadata.uid, resourceVersion,
\* generation, creationTimestamp, managedFields, selfLink, ownerReferences and
\* finalizers are absent; metadata.name is the new name when one is given,
\* otherwise the template's name with "-copy" appended; every other field of
\* the template is there with its value; and the fetched object is unchanged.
C17TemplateCleaned ==
    Cleaned =>
        LET t   == template.obj
            c   == manifest
            tmd == t[sMetadata].m
            cmd == c[sMetadata].m
        IN  /\ <<"s", "t", "a", "t", "u", "s">> \notin DOMAIN c
            /\ DOMAIN cmd \cap Dropped = {}
            /\ cmd[sName] = IF cfg.name # <<>> THEN VStr(cfg.name)
                             ELSE VStr(tmd[sName].s \o <<"-", "c", "o", "p", "y">>)
            /\ \A k \in DOMAIN t \ {<<"s", "t", "a", "t", "u", "s">>, sMetadata} : k \in DOMAIN c /\ c[k] = t[k]
            /\ \A k \in DOMAIN tmd \ (Dropped \cup {sName}) :
                  k \in DOMAIN cmd /\ cmd[k] = tmd[k]
            /\ DOMAIN c \subseteq DOMAIN t
            /\ DOMAIN cmd \subseteq DOMAIN tmd \cup {sName, <<"n", "a", "m", "e", "s", "p", "a", "c", "e">>}
            /\ t \in TemplateObjs

\* the namespaced template, with its status and finalizers, was cleaned for a
\* run without --name
C17Witness ==
    /\ Cleaned
    /\ cfg.name = <<>>
    /\ <<"s", "t", "a", "t", "u", "s">> \in DOMAIN template.obj
    /\ <<"f", "i", "n", "a", "l", "i", "z", "e", "r", "s">> \in DOMAIN template.obj[sMetadata].m
    /\ manifest[sMetadata].m[sName] = VStr(<<"o", "l", "d", "-", "c", "o", "p", "y">>)

\* the run was given the one assignment spec.ports[0].port=80 and has its
\* Document, generated from the schema or made from the template, not yet edited
IndexedSet ==
    /\ cfg.entry = "command"
    /\ cfg.setValues = <<<<"s", "p", "e", "c", ".", "p", "o", "r", "t", "s", "[", "0", "]", ".", "p", "o", "r", "t", "=", "8", "0">>>>
    /\ manifest # EmptyMap
    /\ ~log.editor

\* C18: mixed mode addresses the same location on both paths.  For the --set
\* assignment spec.ports[0].port=80 the --from template path (applySetValues
\* with splitPathParts) and the schema-driven path (BuildNestedMap with
\* parsePath) both write 80 at the field port of element 0 of the list
\* spec.ports, and neither makes a key that holds the bracket text.
C18SameLocation ==
    IndexedSet =>
        LET spec == manifest[sSpec].m
        IN  /\ sPorts \in DOMAIN spec
            /\ spec[sPorts].t = "list"
            /\ Len(spec[sPorts].l) >= 1
            /\ spec[sPorts].l[1].t = "map"
            /\ sPort \in DOMAIN spec[sPorts].l[1].m
            /\ spec[sPorts].l[1].m[sPort] = VInt(80)
            /\ \A k \in DOMAIN spec : ~Contains(k, "[")

\* the run assembled one assignment whose path is a[X], X being no decimal
\* number without a sign: empty, or holding a character that is no digit
NonIndexRun ==
    /\ ParsedRun
    /\ rpc = "assembled"
    /\ Len(assignments) = 1
    /\ LET path  == PathOf(1)
           inner == SubSeq(path, 3, Len(path) - 1)
       IN  /\ Len(path) >= 3
           /\ SubSeq(path, 1, 2) = <<"a", "[">>
           /\ path[Len(path)] = "]"
           /\ inner = <<>> \/ \E i \in 1..Len(inner) : ~IsDigit(inner[i])

\* C19: non-numeric bracket content degrades to a literal key.  For a segment
\* key[X] where X is no non-negative decimal integer (letters, empty, or a
\* negative number such as -1) the whole token key[X] is one plain key:
\* assembling a[x]=v or a[-1]=v stores v under the literal key "a[x]" / "a[-1]"
\* and makes no list and no entry under the key "a".
C19LiteralKey ==
    NonIndexRun =>
        /\ DOMAIN nested = {PathOf(1)}
        /\ nested[PathOf(1)] = vm[PathOf(1)]
        /\ kA \notin DOMAIN nested

\* C20: chained indices are supported.  A path with consecutive indices,
\* a[0][1]=v, assembles to a list at the key a whose element 0 is a list whose
\* element 1 is v, each bracket being its own index step, and not to a single
\* literal key.
C20ChainedIndices ==
    (rpc = "assembled" /\ assignments = <<<<"a", "[", "0", "]", "[", "1", "]", "=", "v">>>>) =>
        /\ DOMAIN nested = {kA}
        /\ nested[kA] = VList(<<VList(<<Nil, VStr(<<"v">>)>>)>>)

(***************************************************************************)
(* Shape conflicts between two entries.                                    *)
(***************************************************************************)
\* the run assembles the two entries spec=5 and spec.replicas=3
ShapeConflict == assignments = <<<<"s", "p", "e", "c", "=", "5">>, <<"s", "p", "e", "c", ".", "r", "e", "p", "l", "i", "c", "a", "s", "=", "3">>>>

\* C21: last-write-wins on shape conflicts.  When one entry sets spec to a
\* scalar and another sets spec.replicas, the entry applied later determines
\* the node spec: the assembled Document is {spec: {replicas: 3}} or
\* {spec: 5}; and a value is written only at the location its own path
\* addresses, never at another one such as a top-level key replicas.
C21LastWriteWins ==
    ShapeConflict =>
        /\ sReplicas \notin DOMAIN nested
        /\ rpc = "assembled" =>
              nested \in {Put(EmptyMap, sSpec, VInt(5)),
                          Put(EmptyMap, sSpec, VMap(Put(EmptyMap, sReplicas, VInt(3))))}

\* C29: assembly never crashes on an accepted key.  For every key that
\* ParseSetValues accepts (any text that is not empty after trimming, such as
\* ".", "..", "[0]" or "a."), BuildNestedMap completes and returns a Document
\* without a run-time failure.
C29NoCrash ==
    ParsedRun => rpc # "panic"

\* the leaves (every field that is no object) of a field tree that are rooted
\* under spec, in schema order
RECURSIVE specLeaves(_, _)
specLeaves(fields, i) ==
    IF i > Len(fields) THEN <<>>
    ELSE LET f == fields[i]
             here == IF ~(f.Path = sSpec \/ HasPrefix(f.Path, sSpec \o <<".">>)) THEN <<>>
                     ELSE IF f.Type = "object" THEN specLeaves(f.Properties, 1)
                     ELSE <<f.Path>>
         IN  here \o specLeaves(fields, i + 1)

\* the schema-driven walk is about to ask its first question
WalkStart ==
    /\ pc = "fields"
    /\ cfg.entry = "command"
    /\ ~template.seeded
    /\ acc = NoAcc
    /\ log.prompts = IF cfg.name = <<>> /\ sMetadataName \notin DOMAIN flagValues THEN 1 ELSE 0

\* C22: selection scope of the schema-driven walk.  Every leaf rooted under
\* spec that no assignment supplies is offered once, in schema order, whether
\* or not the schema lists spec as required.
C22SpecLeavesOffered ==
    WalkStart =>
        SelectSeq([i \in 1..Len(queue) |-> queue[i].field.Path],
                  LAMBDA p : HasPrefix(p, sSpec \o <<".">>))
        = SelectSeq(specLeaves(schema.Fields, 1), LAMBDA p : p \notin DOMAIN flagValues)

(***************************************************************************)
(* The shape of the schema tree and the end of the extraction.             *)
(***************************************************************************)
\* children only on objects, items only on arrays
ShapeOfField(f) ==
    /\ Len(f.Properties) > 0 => f.Type = "object"
    /\ f.Items # <<>> => f.Type = "array"

RECURSIVE ShapeOk(_)
ShapeOk(fields) ==
    \A i \in 1..Len(fields) :
        /\ ShapeOfField(fields[i])
        /\ ShapeOk(fields[i].Properties)
        /\ fields[i].Items # <<>> =>
              /\ ShapeOfField(fields[i].Items[1])
              /\ ShapeOk(fields[i].Items[1].Properties)

\* the fields of properties that declare additionalProperties
MapTagged ==
    \A i \in 1..Len(xout) :
        xdef.def.props[xout[i].Name].hasAdd =>
            xout[i].Type = "map" /\ xout[i].Properties = <<>>

\* C23: shape invariant of the schema tree.  In every FieldSchema that
\* extractFields produces, Properties is non-empty only on an object, Items is
\* set only on an array, and a property that declares additionalProperties is
\* tagged with the kind map and has no children.
C23ShapeInvariant ==
    (xpc = "done" /\ ximpl = "part_003") => ShapeOk(xout) /\ MapTagged

\* C24: schema extraction terminates on every finite type graph, also when
\* its $ref links (of properties or of array items) form a cycle: the call
\* returns a field tree, it never outgrows the stack.
C24Terminates ==
    xpc # "overflow"

\* C25: floor guarantee.  Every ResourceSchema that GetSchema hands to the
\* field collection has at least one field: a matched definition without an
\* extractable field is replaced by the four-field basic shape.
C25FloorGuarantee ==
    (pc = "collect" /\ cfg.entry = "command" /\ ~schema.isNil) => Len(schema.Fields) >= 1

\* the values that only an empty answer produces: the texts a user can type
\* are those of InputTexts and LineTexts, none of which reads as zero
ZeroValues == {VInt(0), VFloat(<<"0">>), VList(<<>>)}

\* C28: an empty answer leaves the field unset.  In the schema-driven walk an
\* empty answer for an optional field without default adds no entry to the
\* ValueMap, for string, integer, number and array fields alike: it never
\* stores 0, 0.0 or an empty list.
C28EmptyAnswerUnset ==
    (cfg.entry = "command" /\ ~template.seeded /\ pc \in {"fields", "generate"}) =>
        \A path \in DOMAIN values.Values \ DOMAIN flagValues :
            values.Values[path] \notin ZeroValues

(***************************************************************************)
(* The claims about a flattened seed with an override (EngineSpec).        *)
(***************************************************************************)
sSpecPorts == sSpec \o <<".">> \o sPorts

sSpecPort0 == <<"s", "p", "e", "c", ".", "p", "o", "r", "t", "s", "[", "0", "]", ".", "p", "o", "r", "t">>

\* the ValueMap is the flattened seed of a list of maps, with an override at
\* an element sub-path
ElementOverride ==
    /\ doc = SpecB
    /\ prefix = sSpec
    /\ assignments = <<<<"s", "p", "e", "c", ".", "p", "o", "r", "t", "s", "[", "0", "]", ".", "p", "o", "r", "t", "=", "8", "0", "8", "0">>>>

\* C26: editing one element of a seeded array.  With the seed of a list of
\* maps (spec.ports and spec.ports[0].port) and an override at the element
\* sub-path spec.ports[0].port=8080, the assembled Document has 8080 at that
\* element, for every order in which the entries are applied.
C26ElementOverride ==
    (ElementOverride /\ rpc = "assembled") => valueAt(nested, sSpecPort0, 1) = VInt(8080)

\* C27: assembly does not change its input.  Every turn of BuildNestedMap
\* leaves every key of the ValueMap at the value it held before.
C27InputFrozen ==
    [][rpc' \in {"assembling", "assembled", "panic"} => vm' = vm]_vars

\* C30: schema lookup is deterministic.  For the same schemas and the same
\* resource identity findResourceSchema returns the same definition on every
\* run: the definition it returned is the only one it can return, whatever
\* the order of its range loops.
C30LookupDeterministic ==
    xpc = "found" =>
        findResourceSchema(xdef.schemas,
                           [Group |-> xdef.gvr.Group, Version |-> xdef.gvr.Version,
                            Kind |-> resourceToKind(xdef.gvr.Resource)],
                           xdef.gvr) = {xout[1]}

====
